---- MODULE Spec2Model ----
(***************************************************************************)
(* Call lifecycle and webhook reconciliation of the ai-caller service:     *)
(* the call store (call.service.ts), the Vapi webhook controller           *)
(* (vapi.controller.ts), the call routes (call.controller.ts) and the      *)
(* stale-call sweep started in app.ts.                                     *)
(*                                                                         *)
(* Strings that the code inspects (includes, trim, toLowerCase, replace)   *)
(* are sequences of one-character strings; the empty sequence stands for   *)
(* both "" and undefined, which the code never tells apart (x || default). *)
(* Optional numbers and dates are <<>> (absent) or <<n>>.                  *)
(***************************************************************************)
EXTENDS Integers, Sequences, FiniteSets, Bags, TLC

\* ------------------------------------------------------------------------
\* String literals of the source, as character sequences
\* ------------------------------------------------------------------------
\* the keywords of analyzeInterestLevel
kw ==
  [yes |-> <<"y", "e", "s">>,
   interested |-> <<"i", "n", "t", "e", "r", "e", "s", "t", "e", "d">>,
   how_much |-> <<"h", "o", "w", " ", "m", "u", "c", "h">>,
   make_an_offer |-> <<"m", "a", "k", "e", " ", "a", "n", " ", "o", "f", "f", "e", "r">>,
   not_interested |-> <<"n", "o", "t", " ", "i", "n", "t", "e", "r", "e", "s", "t", "e", "d">>,
   no_thanks |-> <<"n", "o", " ", "t", "h", "a", "n", "k", "s">>,
   dont_call |-> <<"d", "o", "n", "'", "t", " ", "c", "a", "l", "l">>,
   maybe |-> <<"m", "a", "y", "b", "e">>,
   thinking_about |-> <<"t", "h", "i", "n", "k", "i", "n", "g", " ", "a", "b", "o", "u", "t">>,
   tell_me_more |-> <<"t", "e", "l", "l", " ", "m", "e", " ", "m", "o", "r", "e">>]

\* the error messages handleStatusUpdate builds
errorText ==
  [sip_503 |-> <<"S", "e", "r", "v", "i", "c", "e", " ", "U", "n", "a", "v", "a", "i", "l", "a", "b", "l", "e", " ", "(", "S", "I", "P", " ", "5", "0", "3", ")", " ", "-", " ", "r", "e", "c", "i", "p", "i", "e", "n", "t", "'", "s", " ", "p", "h", "o", "n", "e", " ", "s", "e", "r", "v", "i", "c", "e", " ", "t", "e", "m", "p", "o", "r", "a", "r", "i", "l", "y", " ", "u", "n", "a", "v", "a", "i", "l", "a", "b", "l", "e">>,
   sip_486 |-> <<"B", "u", "s", "y", " ", "H", "e", "r", "e", " ", "(", "S", "I", "P", " ", "4", "8", "6", ")", " ", "-", " ", "r", "e", "c", "i", "p", "i", "e", "n", "t", " ", "i", "s", " ", "b", "u", "s", "y">>,
   sip_480 |-> <<"T", "e", "m", "p", "o", "r", "a", "r", "i", "l", "y", " ", "U", "n", "a", "v", "a", "i", "l", "a", "b", "l", "e", " ", "(", "S", "I", "P", " ", "4", "8", "0", ")">>,
   voicemail |-> <<"C", "a", "l", "l", " ", "r", "e", "a", "c", "h", "e", "d", " ", "v", "o", "i", "c", "e", "m", "a", "i", "l">>,
   no_answer |-> <<"N", "o", " ", "a", "n", "s", "w", "e", "r", " ", "f", "r", "o", "m", " ", "r", "e", "c", "i", "p", "i", "e", "n", "t">>,
   busy |-> <<"R", "e", "c", "i", "p", "i", "e", "n", "t", " ", "l", "i", "n", "e", " ", "w", "a", "s", " ", "b", "u", "s", "y">>,
   call_failed |-> <<"C", "a", "l", "l", " ", "f", "a", "i", "l", "e", "d">>,
   call_failed_dash |-> <<"C", "a", "l", "l", " ", "f", "a", "i", "l", "e", "d", " ", "-", " ">>]

\* the end reasons handleStatusUpdate tests for
reasonText ==
  [completed |-> <<"c", "o", "m", "p", "l", "e", "t", "e", "d">>,
   customer_ended_call |-> <<"c", "u", "s", "t", "o", "m", "e", "r", "-", "e", "n", "d", "e", "d", "-", "c", "a", "l", "l">>,
   assistant_ended_call |-> <<"a", "s", "s", "i", "s", "t", "a", "n", "t", "-", "e", "n", "d", "e", "d", "-", "c", "a", "l", "l">>,
   silence_timed_out |-> <<"s", "i", "l", "e", "n", "c", "e", "-", "t", "i", "m", "e", "d", "-", "o", "u", "t">>,
   assistant_said_end_call_phrase |-> <<"a", "s", "s", "i", "s", "t", "a", "n", "t", "-", "s", "a", "i", "d", "-", "e", "n", "d", "-", "c", "a", "l", "l", "-", "p", "h", "r", "a", "s", "e">>,
   assistant_said_message_too_long |-> <<"a", "s", "s", "i", "s", "t", "a", "n", "t", "-", "s", "a", "i", "d", "-", "m", "e", "s", "s", "a", "g", "e", "-", "t", "o", "o", "-", "l", "o", "n", "g">>,
   voicemail |-> <<"v", "o", "i", "c", "e", "m", "a", "i", "l">>,
   voicemail_reached |-> <<"v", "o", "i", "c", "e", "m", "a", "i", "l", "-", "r", "e", "a", "c", "h", "e", "d">>,
   no_answer |-> <<"n", "o", "-", "a", "n", "s", "w", "e", "r">>,
   no_answer_voicemail |-> <<"n", "o", "-", "a", "n", "s", "w", "e", "r", "-", "v", "o", "i", "c", "e", "m", "a", "i", "l">>,
   sip_503 |-> <<"s", "i", "p", "-", "5", "0", "3">>,
   sip_486 |-> <<"s", "i", "p", "-", "4", "8", "6">>,
   sip_480 |-> <<"s", "i", "p", "-", "4", "8", "0">>]

\* the prefixes formatEndReason removes or replaces
formatText ==
  [call_dot |-> <<"c", "a", "l", "l", ".">>,
   in_progress_dot |-> <<"i", "n", "-", "p", "r", "o", "g", "r", "e", "s", "s", ".">>,
   pipeline_error_dash |-> <<"p", "i", "p", "e", "l", "i", "n", "e", "-", "e", "r", "r", "o", "r", "-">>,
   Pipeline_error_colon |-> <<"P", "i", "p", "e", "l", "i", "n", "e", " ", "e", "r", "r", "o", "r", ":", " ">>,
   error_dash |-> <<"e", "r", "r", "o", "r", "-">>]

\* texts of artifact messages and transcripts
spoken ==
  [hello |-> <<"H", "e", "l", "l", "o">>,
   yes_padded |-> <<" ", "Y", "e", "s", " ">>,
   blank |-> <<" ", " ">>,
   not_interested |-> <<"I", " ", "a", "m", " ", "n", "o", "t", " ", "i", "n", "t", "e", "r", "e", "s", "t", "e", "d">>,
   ok |-> <<"o", "k">>,
   prompt |-> <<"Y", "o", "u", " ", "a", "r", "e", " ", "A", "l", "e", "x">>,
   NOT_INTERESTED |-> <<"N", "O", "T", " ", "I", "N", "T", "E", "R", "E", "S", "T", "E", "D">>,
   how_much |-> <<"H", "o", "w", " ", "m", "u", "c", "h", " ", "i", "s", " ", "i", "t">>]

msg_timed_out_pre == <<"C", "a", "l", "l", " ", "t", "i", "m", "e", "d", " ", "o", "u", "t", " ", "a", "f", "t", "e", "r", " ">>
msg_timed_out_post == <<" ", "m", "i", "n", "u", "t", "e", "s", " ", "w", "i", "t", "h", "o", "u", "t", " ", "s", "t", "a", "t", "u", "s", " ", "u", "p", "d", "a", "t", "e">>
msg_failed_to_initiate == <<"F", "a", "i", "l", "e", "d", " ", "t", "o", " ", "i", "n", "i", "t", "i", "a", "t", "e", " ", "c", "a", "l", "l", ":", " ">>
r_pipeline_error == <<"p", "i", "p", "e", "l", "i", "n", "e", "-", "e", "r", "r", "o", "r", "-", "o", "p", "e", "n", "a", "i", "-", "v", "o", "i", "c", "e", "-", "f", "a", "i", "l", "e", "d">>
r_customer_busy == <<"c", "u", "s", "t", "o", "m", "e", "r", "-", "b", "u", "s", "y">>
e_vapi == <<"V", "a", "p", "i", " ", "A", "P", "I", " ", "e", "r", "r", "o", "r", ":", " ", "F", "a", "i", "l", "e", "d", " ", "t", "o", " ", "i", "n", "i", "t", "i", "a", "t", "e", " ", "c", "a", "l", "l">>

\* ------------------------------------------------------------------------
\* String primitives
\* ------------------------------------------------------------------------
\* String.prototype.includes
includes(hay, needle) ==
  \E i \in 1..(Len(hay) - Len(needle) + 1) : \A j \in 1..Len(needle) : hay[i + j - 1] = needle[j]

startsWith(s, prefix) ==
  Len(s) >= Len(prefix) /\ SubSeq(s, 1, Len(prefix)) = prefix

dropPrefix(s, prefix) ==
  IF startsWith(s, prefix) THEN SubSeq(s, Len(prefix) + 1, Len(s)) ELSE s

UpperCase == <<"A", "B", "C", "D", "E", "F", "G", "H", "I", "J", "K", "L", "M", "N", "O", "P", "Q", "R", "S", "T", "U", "V", "W", "X", "Y", "Z">>

LowerCase == <<"a", "b", "c", "d", "e", "f", "g", "h", "i", "j", "k", "l", "m", "n", "o", "p", "q", "r", "s", "t", "u", "v", "w", "x", "y", "z">>

\* the lower-case form of each upper-case letter
lowerOf == [c \in {UpperCase[i] : i \in 1..26} |-> LowerCase[CHOOSE i \in 1..26 : UpperCase[i] = c]]

\* the upper-case form of each lower-case letter
upperOf == [c \in {LowerCase[i] : i \in 1..26} |-> UpperCase[CHOOSE i \in 1..26 : LowerCase[i] = c]]

lowerChar(c) == IF c \in DOMAIN lowerOf THEN lowerOf[c] ELSE c

upperChar(c) == IF c \in DOMAIN upperOf THEN upperOf[c] ELSE c

\* String.prototype.toLowerCase
toLowerCase(s) == [i \in 1..Len(s) |-> lowerChar(s[i])]

isSpace(c) == c \in {" ", "\t", "\n"}

\* String.prototype.trim
trim(s) ==
  IF \A i \in 1..Len(s) : isSpace(s[i]) THEN <<>>
  ELSE LET first == CHOOSE i \in 1..Len(s) : ~isSpace(s[i]) /\ \A j \in 1..(i - 1) : isSpace(s[j])
           last == CHOOSE i \in 1..Len(s) : ~isSpace(s[i]) /\ \A j \in (i + 1)..Len(s) : isSpace(s[j])
       IN SubSeq(s, first, last)

Digits == <<"0", "1", "2", "3", "4", "5", "6", "7", "8", "9">>

RECURSIVE numberToString(_)
\* template-literal rendering of a non-negative integer
numberToString(n) ==
  IF n < 10 THEN <<Digits[n + 1]>> ELSE numberToString(n \div 10) \o <<Digits[(n % 10) + 1]>>

\* x || y on strings and on optional values: the empty sequence is falsy
orElse(x, y) == IF x # <<>> THEN x ELSE y

\* n || 0 on an optional number: absent and 0 are both falsy
numOrZero(opt) == IF opt # <<>> /\ opt[1] # 0 THEN opt[1] ELSE 0

\* ------------------------------------------------------------------------
\* Outcome classifier of the webhook controller
\* ------------------------------------------------------------------------
analyzeInterestLevel(transcript) ==
  LET lower == toLowerCase(transcript) IN
  IF includes(lower, kw.yes) \/ includes(lower, kw.interested)
     \/ includes(lower, kw.how_much) \/ includes(lower, kw.make_an_offer)
  THEN "HOT"
  ELSE IF includes(lower, kw.not_interested) \/ includes(lower, kw.no_thanks)
          \/ includes(lower, kw.dont_call)
  THEN "NOT_INTERESTED"
  ELSE IF includes(lower, kw.maybe) \/ includes(lower, kw.thinking_about)
          \/ includes(lower, kw.tell_me_more)
  THEN "WARM"
  ELSE "COLD"

\* formatEndReason: strip prefixes, dashes/underscores to spaces, capitalize
formatEndReason(endReason) ==
  LET a == IF startsWith(endReason, formatText.call_dot)
           THEN dropPrefix(dropPrefix(endReason, formatText.call_dot), formatText.in_progress_dot)
           ELSE endReason
      b == IF startsWith(a, formatText.pipeline_error_dash)
           THEN formatText.Pipeline_error_colon \o dropPrefix(a, formatText.pipeline_error_dash)
           ELSE a
      c == dropPrefix(b, formatText.error_dash)
      d == [i \in 1..Len(c) |-> IF c[i] \in {"-", "_"} THEN " " ELSE c[i]]
  IN IF d = <<>> THEN d ELSE <<upperChar(d[1])>> \o Tail(d)

\* ------------------------------------------------------------------------
\* Transcript reconciler
\* ------------------------------------------------------------------------
\* (m.message || m.content || "").trim()
messageText(m) == trim(orElse(m.message, m.content))

\* validMessages without the empty-text filter: blank messages pass
validMessages_keepBlank(messages) ==
  SelectSeq(messages, LAMBDA m : m.role = "user" \/ m.role = "bot")

\* the two filters at the head of extractTranscriptFromMessages
validMessages(messages) ==
  SelectSeq(messages, LAMBDA m : (m.role = "user" \/ m.role = "bot") /\ Len(messageText(m)) > 0)

\* the object pushed onto call.transcript for a payload message
transcriptEntry(msg) ==
  [role |-> msg.role, message |-> messageText(msg), time |-> msg.time,
   secondsFromStart |-> msg.secondsFromStart]

\* `${role}:${text.trim().toLowerCase()}:${time || 0}`
messageId(role, text, time) == <<role, toLowerCase(trim(text)), numOrZero(time)>>

\* a.time || a.secondsFromStart || 0, the key of the comparator
sortTime(a) ==
  IF numOrZero(a.time) # 0 THEN a.time[1] ELSE numOrZero(a.secondsFromStart)

\* insertSorted without the comparison: entries stay in arrival order
insertSorted_arrivalOrder(sorted, x) == Append(sorted, x)

\* position of x in an already sorted prefix: behind every entry that does
\* not compare greater (Array.prototype.sort is stable)
insertSorted(sorted, x) ==
  LET k == Cardinality({i \in 1..Len(sorted) : sortTime(sorted[i]) <= sortTime(x)})
  IN SubSeq(sorted, 1, k) \o <<x>> \o SubSeq(sorted, k + 1, Len(sorted))

RECURSIVE sortTranscript(_)
\* call.transcript.sort((a, b) => timeA - timeB)
sortTranscript(transcript) ==
  IF transcript = <<>> THEN <<>>
  ELSE insertSorted(sortTranscript(SubSeq(transcript, 1, Len(transcript) - 1)),
                    transcript[Len(transcript)])

RECURSIVE pushDeduplicated(_, _)
\* the real-time loop without existingMessages.add: only the ids held before
\* the batch are skipped
pushDeduplicated_noAdd(transcript, msgs) ==
  LET existingMessages == {messageId(transcript[i].role, transcript[i].message, transcript[i].time) : i \in 1..Len(transcript)}
      fresh == SelectSeq(msgs, LAMBDA msg : messageId(msg.role, messageText(msg), msg.time) \notin existingMessages)
  IN transcript \o [i \in 1..Len(fresh) |-> transcriptEntry(fresh[i])]

\* the real-time loop: push a message unless its id is already present
pushDeduplicated(transcript, msgs) ==
  IF msgs = <<>> THEN transcript
  ELSE LET msg == Head(msgs)
           existingMessages == {messageId(transcript[i].role, transcript[i].message, transcript[i].time) : i \in 1..Len(transcript)}
       IN IF messageId(msg.role, messageText(msg), msg.time) \in existingMessages
          THEN pushDeduplicated(transcript, Tail(msgs))
          ELSE pushDeduplicated(Append(transcript, transcriptEntry(msg)), Tail(msgs))

\* extractTranscriptFromMessages(call, messages, isFinalTranscript): the new
\* value of call.transcript
extractTranscriptFromMessages(transcript, messages, isFinalTranscript) ==
  LET valid == validMessages(messages)
      pushed == IF isFinalTranscript
                THEN transcript \o [i \in 1..Len(valid) |-> transcriptEntry(valid[i])]
                ELSE pushDeduplicated(transcript, valid)
  IN sortTranscript(pushed)

RECURSIVE joinMessages(_)
\* call.transcript.map((t) => t.message).join(" ")
joinMessages(transcript) ==
  IF transcript = <<>> THEN <<>>
  ELSE IF Len(transcript) = 1 THEN transcript[1].message
  ELSE transcript[1].message \o <<" ">> \o joinMessages(Tail(transcript))

\* ------------------------------------------------------------------------
\* Summary generation of the webhook controller
\* ------------------------------------------------------------------------
keyPoint(text, n) == [text |-> text, n |-> n]

\* extractKeyPoints of the webhook controller; leadData is always an object
\* after rowToCall
extractKeyPoints(call) ==
  <<keyPoint("Property: ? acres in County", 0)>>
  \o (IF call.state = "QUALIFICATION" THEN <<keyPoint("Lead qualified - answered qualification questions", 0)>> ELSE <<>>)
  \o (IF call.state = "CLOSING" THEN <<keyPoint("Reached closing stage - discussed offer", 0)>> ELSE <<>>)
  \o (IF Len(call.transcript) > 0 THEN <<keyPoint("Conversation length: n exchanges", Len(call.transcript))>> ELSE <<>>)

determineOutcome(call, interestLevel) ==
  IF interestLevel = "NOT_INTERESTED" THEN "Not interested in selling"
  ELSE IF call.state = "END"
       THEN (IF interestLevel = "HOT" THEN "Appointment scheduled" ELSE "Call completed")
  ELSE IF call.state = "CLOSING" THEN "Discussed offer - follow up needed"
  ELSE IF call.state = "QUALIFICATION" THEN "Lead qualified - needs offer"
  ELSE "Initial contact made"

determineNextAction(call, interestLevel) ==
  IF interestLevel = "NOT_INTERESTED" THEN "Mark as not interested"
  ELSE IF interestLevel = "HOT"
       THEN (IF call.state = "CLOSING" \/ call.state = "END"
             THEN "Send offer via email" ELSE "Schedule follow-up call")
  ELSE IF interestLevel = "WARM" THEN "Follow up in 1 week"
  ELSE "Follow up in 2-4 weeks"

RECURSIVE maxOf(_)
\* Math.max(...xs) of a non-empty list
maxOf(xs) ==
  IF Len(xs) = 1 THEN xs[1]
  ELSE LET m == maxOf(Tail(xs)) IN IF xs[1] >= m THEN xs[1] ELSE m

\* (m.endTime || m.time || 0) / 1000; payload times are whole seconds here
botEndSeconds(m) ==
  (IF numOrZero(m.endTime) # 0 THEN m.endTime[1] ELSE numOrZero(m.time)) \div 1000

\* the duration block of generateCallSummary; artifact is <<>> when the
\* event has no artifact.messages, else <<messages>>
summaryDuration(call, artifact) ==
  IF artifact # <<>>
  THEN LET botMessages == SelectSeq(artifact[1], LAMBDA m : m.role = "bot")
       IN IF Len(botMessages) > 0
          THEN maxOf([i \in 1..Len(botMessages) |-> botEndSeconds(botMessages[i])])
          ELSE 0
  ELSE IF call.startedAt # <<>> /\ call.completedAt # <<>>
  THEN (call.completedAt[1] - call.startedAt[1]) \div 1000
  ELSE 0

generateCallSummary(call, artifact) ==
  LET transcriptText == joinMessages(call.transcript)
      interestLevel == analyzeInterestLevel(transcriptText)
  IN [duration |-> summaryDuration(call, artifact),
      outcome |-> determineOutcome(call, interestLevel),
      interestLevel |-> interestLevel,
      keyPoints |-> extractKeyPoints(call),
      nextAction |-> determineNextAction(call, interestLevel),
      appointmentScheduled |-> (call.state = "CLOSING" /\ interestLevel # "NOT_INTERESTED")]

\* ------------------------------------------------------------------------
\* Call store (callService); d is the calls table, a function from the ids
\* of the stored rows to their records
\* ------------------------------------------------------------------------
CallStatus == {"PENDING", "CALLING", "IN_PROGRESS", "COMPLETED", "FAILED", "NO_ANSWER", "VOICEMAIL"}

\* callService.create: the entity it inserts and returns
create(id, phone, t) ==
  [id |-> id, vapiCallId |-> "", phone |-> phone, state |-> "GREETING",
   status |-> "PENDING", transcript |-> <<>>, summary |-> <<>>,
   errorMessage |-> <<>>, updatedAt |-> t, startedAt |-> <<>>, completedAt |-> <<>>]

\* callService.save: UPDATE ... WHERE id = @id with updatedAt = now
save(d, call, t) ==
  IF call.id \in DOMAIN d THEN [d EXCEPT ![call.id] = [call EXCEPT !.updatedAt = t]] ELSE d

\* getByVapiCallId falling back to every stored row when none matches
getByVapiCallId_orAny(d, vapiCallId) ==
  IF {id \in DOMAIN d : d[id].vapiCallId = vapiCallId} = {}
  THEN DOMAIN d
  ELSE {id \in DOMAIN d : d[id].vapiCallId = vapiCallId}

\* callService.getByVapiCallId: the set of matching rows (at most one, the
\* column is UNIQUE)
getByVapiCallId(d, vapiCallId) == {id \in DOMAIN d : d[id].vapiCallId = vapiCallId}

updateStatus(d, id, status, errorMessage, t) ==
  IF id \notin DOMAIN d THEN d
  ELSE LET c1 == [d[id] EXCEPT !.status = status, !.updatedAt = t]
           c2 == IF status = "IN_PROGRESS" /\ c1.startedAt = <<>>
                 THEN [c1 EXCEPT !.startedAt = <<t>>] ELSE c1
           c3 == IF (status = "COMPLETED" \/ status = "FAILED") /\ c2.completedAt = <<>>
                 THEN [c2 EXCEPT !.completedAt = <<t>>, !.state = "END"] ELSE c2
           c4 == IF status = "FAILED" /\ errorMessage # <<>>
                 THEN [c3 EXCEPT !.errorMessage = errorMessage] ELSE c3
       IN save(d, c4, t)

addSummary(d, id, summary, t) ==
  IF id \notin DOMAIN d THEN d
  ELSE save(d, [d[id] EXCEPT !.summary = <<summary>>, !.updatedAt = t], t)

\* generateBasicSummary of the call service
generateBasicSummary(call) ==
  LET lower == toLowerCase(joinMessages(call.transcript))
      interestLevel ==
        IF includes(lower, kw.yes) \/ includes(lower, kw.interested) \/ includes(lower, kw.how_much)
        THEN "HOT"
        ELSE IF includes(lower, kw.not_interested) \/ includes(lower, kw.no_thanks)
        THEN "NOT_INTERESTED"
        ELSE IF includes(lower, kw.maybe) \/ includes(lower, kw.thinking_about)
        THEN "WARM"
        ELSE "COLD"
      keyPoints ==
        <<keyPoint("Property: ? acres in County", 0)>>
        \o (IF Len(call.transcript) > 0 THEN <<keyPoint("Conversation length: n messages", Len(call.transcript))>> ELSE <<>>)
        \o (IF call.status = "FAILED" THEN <<keyPoint("Call timed out or failed", 0)>> ELSE <<>>)
      duration ==
        IF call.startedAt # <<>> /\ call.completedAt # <<>>
        THEN (call.completedAt[1] - call.startedAt[1]) \div 1000 ELSE 0
      outcome ==
        IF call.status = "FAILED" THEN "Call failed or timed out"
        ELSE IF interestLevel = "HOT" THEN "Lead qualified - needs offer"
        ELSE IF interestLevel = "NOT_INTERESTED" THEN "Lead not interested"
        ELSE "Call completed"
      nextAction ==
        IF call.status = "FAILED" THEN "Retry call later"
        ELSE IF interestLevel = "HOT" THEN "Send offer via email"
        ELSE IF interestLevel = "NOT_INTERESTED" THEN "Mark as do not contact"
        ELSE "Review transcript"
  IN [duration |-> duration, outcome |-> outcome, interestLevel |-> interestLevel,
      keyPoints |-> keyPoints, nextAction |-> nextAction, appointmentScheduled |-> FALSE]

\* the sweep's query without its condition on status
staleCalls_anyStatus(d, timeoutSeconds, t) ==
  {id \in DOMAIN d : d[id].updatedAt < t - timeoutSeconds * 1000}

\* the rows selected by the sweep's query
staleCalls(d, timeoutSeconds, t) ==
  {id \in DOMAIN d : (d[id].status = "CALLING" \/ d[id].status = "IN_PROGRESS")
                     /\ d[id].updatedAt < t - timeoutSeconds * 1000}

\* `Call timed out after ${timeoutMinutes} minutes without status update`
timeoutMessage(timeoutSeconds) ==
  msg_timed_out_pre \o numberToString(timeoutSeconds \div 60) \o msg_timed_out_post

\* failStaleCall without the timeout message
failStaleCall_noMessage(d, call, timeoutSeconds, t) ==
  LET d1 == updateStatus(d, call.id, "FAILED", <<>>, t)
  IN IF Len(call.transcript) > 0 /\ call.summary = <<>>
     THEN addSummary(d1, call.id, generateBasicSummary(call), t)
     ELSE d1

\* the body of the sweep's loop for one selected row; call is the snapshot
\* taken by the query
failStaleCall(d, call, timeoutSeconds, t) ==
  LET d1 == updateStatus(d, call.id, "FAILED", timeoutMessage(timeoutSeconds), t)
  IN IF Len(call.transcript) > 0 /\ call.summary = <<>>
     THEN addSummary(d1, call.id, generateBasicSummary(call), t)
     ELSE d1

\* callService.markStaleCallsAsFailed: the table after the loop (the loop
\* touches each selected row only)
markStaleCallsAsFailed(d, timeoutSeconds, t) ==
  [id \in DOMAIN d |->
     IF id \in staleCalls(d, timeoutSeconds, t)
     THEN failStaleCall(d, d[id], timeoutSeconds, t)[id]
     ELSE d[id]]

\* the number markStaleCallsAsFailed returns: staleCalls.length
markedCount(d, timeoutSeconds, t) == Cardinality(staleCalls(d, timeoutSeconds, t))

\* ------------------------------------------------------------------------
\* Webhook controller
\* ------------------------------------------------------------------------
successReasons == {reasonText.customer_ended_call, reasonText.assistant_ended_call, reasonText.silence_timed_out, reasonText.assistant_said_end_call_phrase, reasonText.assistant_said_message_too_long}

voicemailReasons == {reasonText.voicemail, reasonText.voicemail_reached}

noAnswerReasons == {reasonText.no_answer, reasonText.no_answer_voicemail}

\* the classification of the end reason in the "ended" branch
finalStatusOf(endReason) ==
  IF endReason \in successReasons THEN "COMPLETED"
  ELSE IF \E r \in voicemailReasons : includes(endReason, r) THEN "VOICEMAIL"
  ELSE IF \E r \in noAnswerReasons : includes(endReason, r) THEN "NO_ANSWER"
  ELSE "FAILED"

\* the error/info message of the "ended" branch
endedErrorMessage(finalStatus, endReason) ==
  IF finalStatus = "FAILED"
  THEN (IF includes(endReason, reasonText.sip_503) THEN errorText.sip_503
        ELSE IF includes(endReason, reasonText.sip_486) THEN errorText.sip_486
        ELSE IF includes(endReason, reasonText.sip_480) THEN errorText.sip_480
        ELSE formatEndReason(endReason))
  ELSE IF finalStatus = "VOICEMAIL" THEN errorText.voicemail
  ELSE IF finalStatus = "NO_ANSWER" THEN errorText.no_answer
  ELSE <<>>

\* handleEnded without the reset of call.transcript: the final payload is
\* appended to what the record holds
handleEnded_appending(d, call, message, t) ==
  LET endReason == orElse(message.endedReason, reasonText.completed)
      finalStatus == finalStatusOf(endReason)
      d1 == IF message.artifact # <<>>
            THEN save(d, [call EXCEPT !.transcript = extractTranscriptFromMessages(call.transcript, message.artifact[1], TRUE)], t)
            ELSE d
      d2 == updateStatus(d1, call.id, finalStatus, endedErrorMessage(finalStatus, endReason), t)
  IN addSummary(d2, call.id, generateCallSummary(d2[call.id], message.artifact), t)

\* the "ended" branch of handleStatusUpdate for the record call
handleEnded(d, call, message, t) ==
  LET endReason == orElse(message.endedReason, reasonText.completed)
      finalStatus == finalStatusOf(endReason)
      d1 == IF message.artifact # <<>>
            THEN save(d, [call EXCEPT !.transcript = extractTranscriptFromMessages(<<>>, message.artifact[1], TRUE)], t)
            ELSE d
      d2 == updateStatus(d1, call.id, finalStatus, endedErrorMessage(finalStatus, endReason), t)
  IN addSummary(d2, call.id, generateCallSummary(d2[call.id], message.artifact), t)

\* the error message of the failed / busy / no-answer branch
failedErrorMessage(status, endedReason) ==
  IF status = "no-answer" THEN errorText.no_answer
  ELSE IF status = "busy" THEN errorText.busy
  ELSE IF endedReason # <<>> THEN errorText.call_failed_dash \o endedReason
  ELSE errorText.call_failed

\* the failed / busy / no-answer branch of handleStatusUpdate
handleFailed(d, call, message, t) ==
  LET finalStatus == IF message.status = "no-answer" THEN "NO_ANSWER" ELSE "FAILED"
      d1 == updateStatus(d, call.id, finalStatus, failedErrorMessage(message.status, message.endedReason), t)
  IN addSummary(d1, call.id, generateCallSummary(d1[call.id], <<>>), t)

handleStatusUpdate(d, message, t) ==
  IF message.callId = "" \/ message.status = "" THEN d
  ELSE IF getByVapiCallId(d, message.callId) = {} THEN d
  ELSE LET call == d[CHOOSE id \in getByVapiCallId(d, message.callId) : TRUE]
       IN IF message.status = "queued" THEN updateStatus(d, call.id, "CALLING", <<>>, t)
          ELSE IF message.status = "ringing" THEN updateStatus(d, call.id, "CALLING", <<>>, t)
          ELSE IF message.status = "in-progress" THEN updateStatus(d, call.id, "IN_PROGRESS", <<>>, t)
          ELSE IF message.status = "ended" THEN handleEnded(d, call, message, t)
          ELSE IF message.status \in {"failed", "busy", "no-answer"} THEN handleFailed(d, call, message, t)
          ELSE d

handleEndOfCallReport(d, message, t) ==
  IF message.callId = "" THEN d
  ELSE IF getByVapiCallId(d, message.callId) = {} THEN d
  ELSE LET call0 == d[CHOOSE id \in getByVapiCallId(d, message.callId) : TRUE]
           fill == Len(call0.transcript) = 0 /\ message.artifact # <<>>
           call == IF fill
                   THEN [call0 EXCEPT !.transcript = extractTranscriptFromMessages(call0.transcript, message.artifact[1], TRUE)]
                   ELSE call0
           d1 == IF fill THEN save(d, call, t) ELSE d
       IN IF call.summary = <<>> /\ Len(call.transcript) > 0
          THEN addSummary(d1, call.id, generateCallSummary(d1[call.id], message.artifact), t)
          ELSE d1

\* the switch with the conversation-update case calling
\* handleConversationUpdate: incremental extraction, saved when it adds
\* entries
dispatch_conversationUpdateEnabled(d, message, t) ==
  IF message.type = "status-update" THEN handleStatusUpdate(d, message, t)
  ELSE IF message.type = "end-of-call-report" THEN handleEndOfCallReport(d, message, t)
  ELSE IF message.type = "conversation-update"
          /\ message.callId # "" /\ getByVapiCallId(d, message.callId) # {}
          /\ message.artifact # <<>>
  THEN LET call == d[CHOOSE id \in getByVapiCallId(d, message.callId) : TRUE]
           transcript == extractTranscriptFromMessages(call.transcript, message.artifact[1], FALSE)
       IN IF Len(transcript) > Len(call.transcript)
          THEN save(d, [call EXCEPT !.transcript = transcript], t)
          ELSE d
  ELSE d

\* the switch of the POST /webhook/vapi handler: the table after the event
dispatch(d, message, t) ==
  IF message.type = "status-update" THEN handleStatusUpdate(d, message, t)
  ELSE IF message.type = "end-of-call-report" THEN handleEndOfCallReport(d, message, t)
  ELSE d

\* ------------------------------------------------------------------------
\* Summary helpers of the call routes (POST /calls/:id/generate-summary)
\* ------------------------------------------------------------------------
routeAnalyzeInterestLevel(transcript) ==
  LET lower == toLowerCase(transcript) IN
  IF includes(lower, kw.yes) \/ includes(lower, kw.interested)
     \/ includes(lower, kw.how_much) \/ includes(lower, kw.make_an_offer)
  THEN "HOT"
  ELSE IF includes(lower, kw.not_interested) \/ includes(lower, kw.no_thanks)
          \/ includes(lower, kw.dont_call)
  THEN "NOT_INTERESTED"
  ELSE IF includes(lower, kw.maybe) \/ includes(lower, kw.thinking_about)
          \/ includes(lower, kw.tell_me_more)
  THEN "WARM"
  ELSE "COLD"

routeExtractKeyPoints(call) ==
  <<keyPoint("Property: ? acres in County", 0)>>
  \o (IF call.state = "QUALIFICATION" THEN <<keyPoint("Lead qualified - answered qualification questions", 0)>> ELSE <<>>)
  \o (IF call.state = "CLOSING" THEN <<keyPoint("Reached closing stage - discussed offer", 0)>> ELSE <<>>)
  \o (IF Len(call.transcript) > 0 THEN <<keyPoint("Conversation length: n messages", Len(call.transcript))>> ELSE <<>>)

routeDetermineOutcome(call, interestLevel) ==
  IF call.status = "COMPLETED" /\ interestLevel = "HOT" THEN "Lead qualified - needs offer"
  ELSE IF call.status = "COMPLETED" /\ interestLevel = "WARM" THEN "Lead interested - needs follow-up"
  ELSE IF interestLevel = "NOT_INTERESTED" THEN "Lead not interested"
  ELSE IF call.status = "NO_ANSWER" THEN "No answer - schedule callback"
  ELSE IF call.status = "VOICEMAIL" THEN "Voicemail left - awaiting callback"
  ELSE "Call completed"

routeDetermineNextAction(call, interestLevel) ==
  IF interestLevel = "HOT" THEN "Send offer via email"
  ELSE IF interestLevel = "WARM" THEN "Schedule follow-up call"
  ELSE IF interestLevel = "NOT_INTERESTED" THEN "Mark as do not contact"
  ELSE IF call.status = "NO_ANSWER" THEN "Retry call in 2 days"
  ELSE IF call.status = "VOICEMAIL" THEN "Wait for callback, retry if no response in 3 days"
  ELSE "Review transcript"

\* the summary object built by POST /calls/:id/generate-summary
routeSummary(call) ==
  LET interestLevel == routeAnalyzeInterestLevel(joinMessages(call.transcript))
  IN [duration |-> 0,
      outcome |-> routeDetermineOutcome(call, interestLevel),
      interestLevel |-> interestLevel,
      keyPoints |-> routeExtractKeyPoints(call),
      nextAction |-> routeDetermineNextAction(call, interestLevel),
      appointmentScheduled |-> (call.state = "CLOSING" /\ interestLevel # "NOT_INTERESTED")]

\* ------------------------------------------------------------------------
\* Timer constants of app.ts
\* ------------------------------------------------------------------------
STALE_CHECK_INTERVAL == 5 * 60 * 1000

STALE_TIMEOUT == 10 * 60

\* ------------------------------------------------------------------------
\* Bounds and input sets
\* ------------------------------------------------------------------------
\* number of sweep intervals the clock runs through
MaxTicks == 3

\* ids randomUUID can return, ids the platform can assign, phones of leads
CallIds == {"c1"}

VapiIds == {"v1"}

Phones == {"+15551234567"}

e_unique == <<"U", "N", "I", "Q", "U", "E", " ", "c", "o", "n", "s", "t", "r", "a", "i", "n", "t", " ", "f", "a", "i", "l", "e", "d", ":", " ", "c", "a", "l", "l", "s", ".", "v", "a", "p", "i", "_", "c", "a", "l", "l", "_", "i", "d">>

payloadMessage(role, message, content, time, endTime, secondsFromStart) ==
  [role |-> role, message |-> message, content |-> content, time |-> time,
   endTime |-> endTime, secondsFromStart |-> secondsFromStart]

\* artifact.messages payloads: one in time order with a system prompt, a
\* padded text and a blank one; one out of time order using content
ArtifactA == <<payloadMessage("system", spoken.prompt, <<>>, <<>>, <<>>, <<>>), payloadMessage("bot", spoken.hello, <<>>, <<1000>>, <<2000>>, <<1>>), payloadMessage("user", spoken.yes_padded, <<>>, <<3000>>, <<>>, <<3>>), payloadMessage("user", spoken.blank, <<>>, <<4000>>, <<>>, <<4>>)>>

ArtifactB == <<payloadMessage("user", <<>>, spoken.not_interested, <<2000>>, <<>>, <<>>), payloadMessage("bot", spoken.ok, <<>>, <<1000>>, <<>>, <<>>)>>

webhookMessage(type, status, endedReason, artifact, callId) ==
  [type |-> type, status |-> status, endedReason |-> endedReason,
   artifact |-> artifact, callId |-> callId]

\* webhook bodies delivered in the behaviours of Spec
Messages ==
  {webhookMessage("status-update", s, <<>>, <<>>, "v1") : s \in {"queued", "in-progress", "no-answer"}}
  \cup {webhookMessage("status-update", "ended", r, <<>>, "v1") : r \in {<<>>, reasonText.customer_ended_call, reasonText.voicemail_reached}}
  \cup {webhookMessage("status-update", "ended", reasonText.customer_ended_call, <<a>>, "v1") : a \in {ArtifactA, ArtifactB}}
  \cup {webhookMessage("end-of-call-report", "", <<>>, <<ArtifactA>>, "v1")}
  \cup {webhookMessage("conversation-update", "", <<>>, <<ArtifactA>>, "v1")}
  \cup {webhookMessage("status-update", "ended", reasonText.customer_ended_call, <<ArtifactA>>, "v9")}

\* ------------------------------------------------------------------------
\* State
\* ------------------------------------------------------------------------
VARIABLES
  db,        \* the calls table: id -> record
  now,       \* Date.now(), in milliseconds
  starting,  \* POST /calls/start requests awaiting the placement reply: id -> the handler's call object
  ending,    \* POST /calls/:id/end requests awaiting the platform's reply: set of ids
  sweepDue,  \* the setInterval callback of app.ts is due
  probe,     \* argument and result of a pure function applied on its own
  pending,   \* webhook requests received, their handlers not yet begun
  frames     \* handlers suspended at an await: their locals and the operation awaited

vars == <<db, now, starting, ending, sweepDue, probe, pending, frames>>

NoProbe == [fn |-> "none"]

Init ==
  /\ db = <<>>
  /\ now = 0
  /\ starting = <<>>
  /\ ending = {}
  /\ sweepDue = FALSE
  /\ probe = NoProbe
  /\ pending = {}
  /\ frames = <<>>

\* POST /calls/start up to the await of vapiService.initiateCall: create the
\* record, updateStatus(CALLING); the handler keeps the object create returned
StartCall(id, phone) ==
  /\ id \notin DOMAIN db
  /\ db' = updateStatus(id :> create(id, phone, now) @@ db, id, "CALLING", <<>>, now)
  /\ starting' = id :> create(id, phone, now) @@ starting
  /\ UNCHANGED <<now, ending, sweepDue, probe, pending, frames>>

\* PlaceOk on a table whose vapi_call_id column is not UNIQUE
PlaceOk_notUnique(id, vapiCallId) ==
  /\ id \in DOMAIN starting
  /\ db' = save(db, [starting[id] EXCEPT !.vapiCallId = vapiCallId], now)
  /\ starting' = [i \in DOMAIN starting \ {id} |-> starting[i]]
  /\ UNCHANGED <<now, ending, sweepDue, probe, pending, frames>>

\* the placement call returned vapiCallId: save the handler's call object;
\* a vapi_call_id already stored violates UNIQUE, save throws and the catch
\* block marks the record FAILED
PlaceOk(id, vapiCallId) ==
  /\ id \in DOMAIN starting
  /\ db' = IF \E o \in DOMAIN db \ {id} : db[o].vapiCallId = vapiCallId
           THEN updateStatus(db, id, "FAILED", msg_failed_to_initiate \o e_unique, now)
           ELSE save(db, [starting[id] EXCEPT !.vapiCallId = vapiCallId], now)
  /\ starting' = [i \in DOMAIN starting \ {id} |-> starting[i]]
  /\ UNCHANGED <<now, ending, sweepDue, probe, pending, frames>>

\* the body POST /calls/start returns after the record was saved
startSuccessReply(call, vapiCallId) ==
  [code |-> 200, success |-> TRUE, callId |-> call.id, vapiCallId |-> vapiCallId, status |-> "CALLING"]

\* reply.status(500).send(...) of the catch block of POST /calls/start
startFailureReply(call, message) ==
  [code |-> 500, error |-> "Failed to initiate call", message |-> message, callId |-> call.id]

\* the catch block leaving the record as it is
PlaceFail_noUpdate(id) ==
  /\ id \in DOMAIN starting
  /\ starting' = [i \in DOMAIN starting \ {id} |-> starting[i]]
  /\ UNCHANGED <<db, now, ending, sweepDue, probe, pending, frames>>

\* the placement call threw: the catch block of POST /calls/start
PlaceFail(id) ==
  /\ id \in DOMAIN starting
  /\ db' = updateStatus(db, id, "FAILED", msg_failed_to_initiate \o e_vapi, now)
  /\ starting' = [i \in DOMAIN starting \ {id} |-> starting[i]]
  /\ UNCHANGED <<now, ending, sweepDue, probe, pending, frames>>

\* POST /webhook/vapi with a body that passes the schema
Webhook(message) ==
  /\ db' = dispatch(db, message, now)
  /\ UNCHANGED <<now, starting, ending, sweepDue, probe, pending, frames>>

\* POST /calls/:id/end up to the await of vapiService.endCall (not awaited
\* when the record has no vapiCallId)
EndCall(id) ==
  /\ id \in DOMAIN db
  /\ IF db[id].vapiCallId # ""
     THEN ending' = ending \cup {id} /\ UNCHANGED db
     ELSE db' = updateStatus(db, id, "COMPLETED", <<>>, now) /\ UNCHANGED ending
  /\ UNCHANGED <<now, starting, sweepDue, probe, pending, frames>>

\* the await of vapiService.endCall settles: resolved, the handler goes on
\* to updateStatus COMPLETED; rejected, it answers 500 and the record is not
\* touched
EndReturn(id, resolved) ==
  /\ id \in ending
  /\ db' = IF resolved THEN updateStatus(db, id, "COMPLETED", <<>>, now) ELSE db
  /\ ending' = ending \ {id}
  /\ UNCHANGED <<now, starting, sweepDue, probe, pending, frames>>

\* POST /calls/:id/generate-summary on a record with a transcript
GenerateSummary(id) ==
  /\ id \in DOMAIN db
  /\ Len(db[id].transcript) > 0
  /\ db' = addSummary(db, id, routeSummary(db[id]), now)
  /\ UNCHANGED <<now, starting, ending, sweepDue, probe, pending, frames>>

\* one check interval passes and the timer callback becomes due
Tick ==
  /\ now < MaxTicks * STALE_CHECK_INTERVAL
  /\ ~sweepDue
  /\ now' = now + STALE_CHECK_INTERVAL
  /\ sweepDue' = TRUE
  /\ UNCHANGED <<db, starting, ending, probe, pending, frames>>

\* the setInterval callback: markStaleCallsAsFailed(STALE_TIMEOUT)
Sweep ==
  /\ sweepDue
  /\ db' = markStaleCallsAsFailed(db, STALE_TIMEOUT, now)
  /\ sweepDue' = FALSE
  /\ UNCHANGED <<now, starting, ending, probe, pending, frames>>

Next ==
  \/ \E id \in CallIds, phone \in Phones : StartCall(id, phone)
  \/ \E id \in CallIds, v \in VapiIds : PlaceOk(id, v)
  \/ \E id \in CallIds : PlaceFail(id)
  \/ \E message \in Messages : Webhook(message)
  \/ \E id \in CallIds : EndCall(id)
  \/ \E id \in CallIds, resolved \in BOOLEAN : EndReturn(id, resolved)
  \/ \E id \in CallIds : GenerateSummary(id)
  \/ Tick
  \/ Sweep

Spec == Init /\ [][Next]_vars

\* ------------------------------------------------------------------------
\* The sweep is guaranteed to find a record stale once this many check
\* intervals have passed without a write to it
\* ------------------------------------------------------------------------
StaleTicks == (STALE_TIMEOUT * 1000) \div STALE_CHECK_INTERVAL + 1

\* requests and placement replies arrive only while the clock leaves room
\* for a record to go stale afterwards
RequestsOpen == now <= (MaxTicks - StaleTicks) * STALE_CHECK_INTERVAL

LiveNext ==
  \/ RequestsOpen /\ \E id \in CallIds, phone \in Phones : StartCall(id, phone)
  \/ RequestsOpen /\ \E id \in CallIds, v \in VapiIds : PlaceOk(id, v)
  \/ \E id \in CallIds : PlaceFail(id)
  \/ RequestsOpen /\ \E message \in Messages : Webhook(message)
  \/ RequestsOpen /\ \E id \in CallIds : EndCall(id)
  \/ \E id \in CallIds, resolved \in BOOLEAN : EndReturn(id, resolved)
  \/ RequestsOpen /\ \E id \in CallIds : GenerateSummary(id)
  \/ Tick
  \/ Sweep

\* time passes and the setInterval callback keeps firing
LiveSpec == Init /\ [][LiveNext]_vars /\ WF_vars(Tick) /\ WF_vars(Sweep)

\* ------------------------------------------------------------------------
\* analyzeInterestLevel applied on its own to bounded texts
\* ------------------------------------------------------------------------

\* longest text, in phrases
MaxPhrases == 2

Phrases == {kw.yes, kw.interested, kw.how_much, kw.make_an_offer, kw.not_interested, kw.no_thanks, kw.dont_call, kw.maybe, kw.thinking_about, kw.tell_me_more, spoken.hello, spoken.ok, spoken.NOT_INTERESTED, spoken.how_much}

RECURSIVE TextsUpTo(_)
TextsUpTo(n) ==
  IF n = 1 THEN Phrases
  ELSE TextsUpTo(n - 1) \cup {t \o <<" ">> \o p : t \in TextsUpTo(n - 1), p \in Phrases}

InitClassify ==
  /\ db = <<>> /\ now = 0 /\ starting = <<>> /\ ending = {} /\ sweepDue = FALSE
  /\ pending = {} /\ frames = <<>>
  /\ probe \in {[fn |-> "analyzeInterestLevel", text |-> t, done |-> FALSE, level |-> ""] : t \in TextsUpTo(MaxPhrases)}

Classify ==
  /\ probe.fn = "analyzeInterestLevel"
  /\ ~probe.done
  /\ probe' = [probe EXCEPT !.done = TRUE, !.level = analyzeInterestLevel(probe.text)]
  /\ UNCHANGED <<db, now, starting, ending, sweepDue, pending, frames>>

ClassifySpec == InitClassify /\ [][Classify]_vars

\* ------------------------------------------------------------------------
\* extractTranscriptFromMessages in real-time mode applied on its own to two
\* fragments in both orders
\* ------------------------------------------------------------------------
Fragments ==
  {payloadMessage(r, txt, <<>>, tm, <<>>, sfs) :
     r \in {"user", "bot"}, txt \in {spoken.yes_padded, kw.yes, spoken.blank},
     tm \in {<<>>, <<1000>>, <<2000>>}, sfs \in {<<>>, <<1000>>}}

\* transcripts held before the two fragments arrive (sorted, as the code
\* leaves them)
HeldTranscripts ==
  {<<>>, <<transcriptEntry(payloadMessage("user", kw.yes, <<>>, <<1000>>, <<>>, <<>>))>>}

InitReconcile ==
  /\ db = <<>> /\ now = 0 /\ starting = <<>> /\ ending = {} /\ sweepDue = FALSE
  /\ pending = {} /\ frames = <<>>
  /\ probe \in {[fn |-> "reconcile", held |-> h, A |-> a, B |-> b, doneAB |-> FALSE, doneBA |-> FALSE, ab |-> <<>>, ba |-> <<>>] :
                  h \in HeldTranscripts, a \in Fragments, b \in Fragments}

\* A is delivered, then B
ReconcileAB ==
  /\ probe.fn = "reconcile"
  /\ ~probe.doneAB
  /\ probe' = [probe EXCEPT !.doneAB = TRUE,
                 !.ab = extractTranscriptFromMessages(extractTranscriptFromMessages(probe.held, <<probe.A>>, FALSE), <<probe.B>>, FALSE)]
  /\ UNCHANGED <<db, now, starting, ending, sweepDue, pending, frames>>

\* B is delivered, then A
ReconcileBA ==
  /\ probe.fn = "reconcile"
  /\ ~probe.doneBA
  /\ probe' = [probe EXCEPT !.doneBA = TRUE,
                 !.ba = extractTranscriptFromMessages(extractTranscriptFromMessages(probe.held, <<probe.B>>, FALSE), <<probe.A>>, FALSE)]
  /\ UNCHANGED <<db, now, starting, ending, sweepDue, pending, frames>>

ReconcileSpec == InitReconcile /\ [][ReconcileAB \/ ReconcileBA]_vars

\* ------------------------------------------------------------------------
\* Properties
\* ------------------------------------------------------------------------
Terminal == {"COMPLETED", "FAILED", "NO_ANSWER", "VOICEMAIL"}

\* end reasons, one per terminal status
AnyEndedReason == {reasonText.customer_ended_call, reasonText.voicemail_reached, reasonText.no_answer, r_pipeline_error}

\* the terminal status-updates for the placed call: 'ended' with each end
\* reason, without and with artifact messages, with an out-of-order payload,
\* with an empty messages array (<<<<>>>>), and failed / busy / no-answer
TerminalMessages ==
  {webhookMessage("status-update", "ended", r, a, "v1") : r \in AnyEndedReason, a \in {<<>>, <<ArtifactA>>}}
  \cup {webhookMessage("status-update", "ended", reasonText.customer_ended_call, <<ArtifactB>>, "v1"),
        webhookMessage("status-update", "ended", <<>>, <<<<>>>>, "v1"),
        webhookMessage("status-update", "failed", r_customer_busy, <<>>, "v1"),
        webhookMessage("status-update", "busy", <<>>, <<>>, "v1"),
        webhookMessage("status-update", "no-answer", <<>>, <<ArtifactA>>, "v1")}

\* the number of times x occurs in seq, for every x
bagOf(seq) == [x \in {seq[i] : i \in 1..Len(seq)} |-> Cardinality({i \in 1..Len(seq) : seq[i] = x})]

\* C1: once a record's status is COMPLETED, FAILED, NO_ANSWER or VOICEMAIL,
\* no webhook event changes its status.
C1_TerminalMonotonicity ==
  [][\A m \in Messages : Webhook(m) =>
       \A id \in DOMAIN db : db[id].status \in Terminal => db'[id].status = db[id].status]_vars

\* C2: every record created by POST /calls/start eventually has a terminal
\* status, given that time passes and the sweep keeps firing.
C2_EventuallyTerminal ==
  \A id \in CallIds : (id \in DOMAIN db) ~> (id \in DOMAIN db /\ db[id].status \in Terminal)

\* C3: the conversation state of a record is END exactly when its status is
\* terminal.
C3_EndIffTerminal ==
  \A id \in DOMAIN db : (db[id].state = "END") <=> (db[id].status \in Terminal)

\* C4: once a record has a summary, no webhook event and no sweep replaces
\* it.
C4_SummaryWrittenOnce ==
  [][(Sweep \/ \E m \in Messages : Webhook(m)) =>
       \A id \in DOMAIN db : db[id].summary # <<>> => db'[id].summary = db[id].summary]_vars

\* status, summary and transcript of every record
C5_Outcome(d) == [id \in DOMAIN d |-> <<d[id].status, d[id].summary, d[id].transcript>>]

\* C5: in every reachable state and for every terminal status-update,
\* processing the event a second time, one interval after the first, leaves
\* the same status, summary and transcript as processing it once.
C5_TerminalEventIdempotent ==
  \A m \in TerminalMessages :
    LET once == dispatch(db, m, now)
    IN C5_Outcome(dispatch(once, m, now + STALE_CHECK_INTERVAL)) = C5_Outcome(once)

\* a terminal status-update with artifact messages has been processed and
\* its re-delivery leaves the record as it is
C5_Witness ==
  \E id \in DOMAIN db : \E m \in TerminalMessages :
    /\ m.artifact # <<>> /\ m.artifact[1] # <<>>
    /\ db[id].vapiCallId = m.callId
    /\ db[id].status \in Terminal /\ db[id].summary # <<>> /\ db[id].transcript # <<>>
    /\ dispatch(db, m, now) = db

C7_Valid(m) == m.role \in {"user", "bot"} /\ trim(orElse(m.message, m.content)) # <<>>

\* the transcript entries a payload stands for
C7_Entries(messages) ==
  LET keep == SelectSeq(messages, C7_Valid)
  IN [i \in 1..Len(keep) |->
        [role |-> keep[i].role, message |-> trim(orElse(keep[i].message, keep[i].content)),
         time |-> keep[i].time, secondsFromStart |-> keep[i].secondsFromStart]]

\* C7: in every reachable state, after an 'ended' status-update with
\* artifact messages the transcript holds exactly the valid messages of the
\* payload, each as often as the payload does, and nothing else.
C7_FinalWins ==
  \A m \in TerminalMessages : (m.status = "ended" /\ m.artifact # <<>>) =>
    \A id \in getByVapiCallId(db, m.callId) :
      bagOf(dispatch(db, m, now)[id].transcript) = bagOf(C7_Entries(m.artifact[1]))

\* a record holds a transcript and an 'ended' event whose payload differs
\* from it replaces that transcript
C7_Witness ==
  \E id \in DOMAIN db : \E m \in TerminalMessages :
    /\ m.status = "ended" /\ m.artifact # <<>> /\ db[id].vapiCallId = m.callId
    /\ db[id].transcript # <<>>
    /\ bagOf(db[id].transcript) # bagOf(C7_Entries(m.artifact[1]))
    /\ C7_Entries(m.artifact[1]) # <<>>
    /\ dispatch(db, m, now)[id].transcript # db[id].transcript

\* the dedup key of a fragment
C8_Key(f) == messageId(f.role, messageText(f), f.time)

\* C8 as stated: reconciling A then B yields the same transcript as
\* reconciling B then A, for every pair of fragments.
C8_OrderIndependentAlways ==
  (probe.fn = "reconcile" /\ probe.doneAB /\ probe.doneBA) => probe.ab = probe.ba

\* C8 as amended: reconciling A then B yields the same transcript as
\* reconciling B then A for fragments whose sort times differ and whose
\* dedup keys differ.
C8_OrderIndependent ==
  (probe.fn = "reconcile" /\ probe.doneAB /\ probe.doneBA
   /\ sortTime(probe.A) # sortTime(probe.B) /\ C8_Key(probe.A) # C8_Key(probe.B))
  => probe.ab = probe.ba

\* two valid fragments, the later one delivered first, both appended to a
\* held transcript
C8_Witness ==
  /\ probe.fn = "reconcile" /\ probe.doneAB /\ probe.doneBA
  /\ sortTime(probe.A) > sortTime(probe.B) /\ C8_Key(probe.A) # C8_Key(probe.B)
  /\ probe.held # <<>>
  /\ Len(probe.ab) = Len(probe.held) + 2
  /\ probe.ab = probe.ba

C9_Disinterest(lower) == includes(lower, kw.not_interested) \/ includes(lower, kw.no_thanks) \/ includes(lower, kw.dont_call)

C9_Strong(lower) == includes(lower, kw.yes) \/ includes(lower, kw.interested) \/ includes(lower, kw.how_much) \/ includes(lower, kw.make_an_offer)

C9_Tentative(lower) == includes(lower, kw.maybe) \/ includes(lower, kw.thinking_about) \/ includes(lower, kw.tell_me_more)

\* C9: the interest level is NOT_INTERESTED whenever the text contains a
\* disinterest marker, otherwise HOT on a strong-affirmative marker,
\* otherwise WARM on a tentative marker, otherwise COLD.
C9_InterestPrecedence ==
  (probe.fn = "analyzeInterestLevel" /\ probe.done) =>
    LET lower == toLowerCase(probe.text)
    IN probe.level = IF C9_Disinterest(lower) THEN "NOT_INTERESTED"
                     ELSE IF C9_Strong(lower) THEN "HOT"
                     ELSE IF C9_Tentative(lower) THEN "WARM"
                     ELSE "COLD"

\* C10: after a terminal status-update the matched record has a non-empty
\* errorMessage unless it is COMPLETED: "Call reached voicemail" for
\* VOICEMAIL, "No answer from recipient" for NO_ANSWER.
C10_NonCompletedHasError ==
  [][\A m \in Messages :
       (Webhook(m) /\ m.type = "status-update" /\ m.status \in {"ended", "failed", "busy", "no-answer"}) =>
         \A id \in getByVapiCallId(db, m.callId) :
           /\ db'[id].status = "VOICEMAIL" => db'[id].errorMessage = errorText.voicemail
           /\ db'[id].status = "NO_ANSWER" => db'[id].errorMessage = errorText.no_answer
           /\ db'[id].status = "FAILED" => db'[id].errorMessage # <<>>]_vars

\* ------------------------------------------------------------------------
\* POST /webhook/vapi as a request: content-type parser, signature hook,
\* schema validation, dispatch, response status
\* ------------------------------------------------------------------------
\* a JSON message object as the sender wrote it: type is <<>> when the key
\* is missing, status and callId are "" when missing
jsonMessage(type, status, endedReason, artifact, callId) ==
  [type |-> type, status |-> status, endedReason |-> endedReason,
   artifact |-> artifact, callId |-> callId]

\* request bodies, by name, and the value JSON.parse returns for each;
\* message is <<>> when the top-level key is missing
Bodies ==
  [b_progress |-> [message |-> <<jsonMessage(<<"status-update">>, "in-progress", <<>>, <<>>, "v1")>>],
   b_ended |-> [message |-> <<jsonMessage(<<"status-update">>, "ended", reasonText.customer_ended_call, <<ArtifactA>>, "v1")>>],
   b_ended_spaced |-> [message |-> <<jsonMessage(<<"status-update">>, "ended", reasonText.customer_ended_call, <<ArtifactA>>, "v1")>>],
   b_miss |-> [message |-> <<jsonMessage(<<"status-update">>, "ended", reasonText.customer_ended_call, <<ArtifactA>>, "v9")>>],
   b_no_call |-> [message |-> <<jsonMessage(<<"status-update">>, "ended", reasonText.customer_ended_call, <<ArtifactA>>, "")>>],
   b_no_status |-> [message |-> <<jsonMessage(<<"status-update">>, "", <<>>, <<ArtifactA>>, "v1")>>],
   b_report |-> [message |-> <<jsonMessage(<<"end-of-call-report">>, "", <<>>, <<ArtifactA>>, "v1")>>],
   b_report_miss |-> [message |-> <<jsonMessage(<<"end-of-call-report">>, "", <<>>, <<ArtifactA>>, "v9")>>],
   b_report_no_call |-> [message |-> <<jsonMessage(<<"end-of-call-report">>, "", <<>>, <<ArtifactA>>, "")>>],
   b_conversation |-> [message |-> <<jsonMessage(<<"conversation-update">>, "ended", reasonText.customer_ended_call, <<ArtifactB>>, "v1")>>],
   b_speech |-> [message |-> <<jsonMessage(<<"speech-update">>, "ended", reasonText.customer_ended_call, <<ArtifactA>>, "v1")>>],
   b_future |-> [message |-> <<jsonMessage(<<"call-transferred">>, "ended", reasonText.customer_ended_call, <<ArtifactA>>, "v1")>>],
   b_empty_type |-> [message |-> <<jsonMessage(<<"">>, "failed", <<>>, <<>>, "v1")>>],
   b_no_type |-> [message |-> <<jsonMessage(<<>>, "ended", reasonText.customer_ended_call, <<>>, "v1")>>],
   b_no_message |-> [message |-> <<>>]]

\* JSON.parse of the content-type parser
parseJSON(text) == Bodies[text]

\* what a parser other than the application/json one leaves in req.body:
\* not an object with a message
NotAnEvent == [message |-> <<>>]

\* createHmac("sha256", secret).update(payload).digest("hex"): the digest
\* is determined by key and text and by nothing else
hmacSha256Hex(secret, payload) == [key |-> secret, text |-> payload]

\* a header value that is no digest: "deadbeef"
sig_garbage == [key |-> <<>>, text |-> "deadbeef"]

\* Buffer.from(x).length of a header value: 64 hex characters for a digest
bufferLength(x) == IF x = sig_garbage THEN 8 ELSE 64

\* verifyVapiSignature(payload, signature, secret); signature is <<>> when
\* the header is missing, else <<value>>
verifyVapiSignature(payload, signature, secret) ==
  IF signature = <<>> THEN FALSE
  ELSE LET expectedSignature == hmacSha256Hex(secret, payload)
       IN IF bufferLength(signature[1]) # bufferLength(expectedSignature) THEN FALSE
          ELSE signature[1] = expectedSignature

\* a request: json says whether the application/json parser ran (it stores
\* rawBody), text names the body, signature is the x-vapi-signature header
webhookRequest(json, text, signature) == [json |-> json, text |-> text, signature |-> signature]

\* webhookVerificationHook: 0 when the hook lets the request through, else
\* the status it replies with; secret is <<>> when none is configured
webhookVerificationHook(request, secret) ==
  IF secret = <<>> THEN 0
  ELSE IF ~request.json THEN 500
  ELSE IF ~verifyVapiSignature(request.text, request.signature, secret) THEN 401
  ELSE 0

\* vapiWebhookEventSchema.parse succeeds: message is present and has a type
schemaAccepts(body) == body.message # <<>> /\ body.message[1].type # <<>>

\* the message the handlers see after a successful parse
parsedMessage(body) ==
  LET m == body.message[1]
  IN webhookMessage(m.type[1], m.status, m.endedReason, m.artifact, m.callId)

\* the request lifecycle: a reply sent by the preHandler hook ends the
\* request; else the handler validates, dispatches and answers
postWebhook(d, secret, request, t) ==
  LET hook == webhookVerificationHook(request, secret)
      body == IF request.json THEN parseJSON(request.text) ELSE NotAnEvent
  IN IF hook # 0 THEN [db |-> d, status |-> hook]
     ELSE IF ~schemaAccepts(body) THEN [db |-> d, status |-> 400]
     ELSE [db |-> dispatch(d, parsedMessage(body), t), status |-> 200]

\* the configured secret and another key
k_secret == <<"w", "h", "s", "e", "c">>

k_other == <<"o", "t", "h", "e", "r">>

BodyNames == DOMAIN Bodies

\* header values a sender can produce for a body: none, garbage, the digest
\* under either key of this body or of another one
SignaturesFor(text) ==
  {<<>>, <<sig_garbage>>}
  \cup {<<hmacSha256Hex(k, x)>> : k \in {k_secret, k_other}, x \in {text, "b_ended"}}

Requests ==
  UNION {{webhookRequest(json, text, sig) : json \in BOOLEAN, sig \in SignaturesFor(text)} : text \in BodyNames}

\* the server is configured with or without a webhook secret
InitWebhook ==
  /\ db = <<>>
  /\ now = 0
  /\ starting = <<>>
  /\ ending = {}
  /\ sweepDue = FALSE
  /\ pending = {}
  /\ frames = <<>>
  /\ probe \in {[fn |-> "postWebhook", secret |-> s, done |-> FALSE] : s \in {<<>>, k_secret}}

\* one request to POST /webhook/vapi; probe keeps the request, the table
\* before and after it and the response status
PostWebhook(request) ==
  /\ probe.fn = "postWebhook"
  /\ LET r == postWebhook(db, probe.secret, request, now)
     IN /\ db' = r.db
        /\ probe' = [fn |-> "postWebhook", secret |-> probe.secret, done |-> TRUE,
                     request |-> request, before |-> db, after |-> r.db,
                     status |-> r.status]
  /\ UNCHANGED <<now, starting, ending, sweepDue, pending, frames>>

WebhookNext ==
  \/ \E id \in CallIds, phone \in Phones : StartCall(id, phone)
  \/ \E id \in CallIds, v \in VapiIds : PlaceOk(id, v)
  \/ \E id \in CallIds : PlaceFail(id)
  \/ \E request \in Requests : PostWebhook(request)

WebhookSpec == InitWebhook /\ [][WebhookNext]_vars

\* ------------------------------------------------------------------------
\* The status-update handler and the sweep one await at a time. A frame is
\* an async call suspended at an await: its locals and the callService
\* method whose promise it awaits. Each step runs the code between two
\* awaits together with the database statement of the method it calls next
\* (the statement runs when the method is called, before its promise is
\* awaited)
\* ------------------------------------------------------------------------

\* whether the promise of a callService method settles only after the event
\* loop has been released: get, getByVapiCallId and save run a better-sqlite3
\* statement synchronously and return, so their promises are settled when
\* they are awaited and the continuation is a microtask
awaitsIO_asyncStore(method) == TRUE

awaitsIO(method) == FALSE

NoMessage == webhookMessage("", "", <<>>, <<>>, "")

frame(kind, message, pc, call, c, summary, queue, seen, batch, awaiting) ==
  [kind |-> kind, m |-> message, pc |-> pc, call |-> call, c |-> c,
   summary |-> summary, queue |-> queue, seen |-> seen, batch |-> batch,
   awaiting |-> awaiting]

\* callService.get: the row, or nothing
get(d, id) == IF id \in DOMAIN d THEN <<d[id]>> ELSE <<>>

\* the assignments of updateStatus to the row it has read
statusAssigned(c, status, errorMessage, t) ==
  updateStatus([i \in {c.id} |-> c], c.id, status, errorMessage, t)[c.id]

\* the status and message handleStatusUpdate passes to updateStatus
targetStatus(message) ==
  IF message.status \in {"queued", "ringing"} THEN "CALLING"
  ELSE IF message.status = "in-progress" THEN "IN_PROGRESS"
  ELSE IF message.status = "ended" THEN finalStatusOf(orElse(message.endedReason, reasonText.completed))
  ELSE IF message.status = "no-answer" THEN "NO_ANSWER"
  ELSE "FAILED"

targetErrorMessage(message) ==
  IF message.status = "ended"
  THEN endedErrorMessage(targetStatus(message), orElse(message.endedReason, reasonText.completed))
  ELSE IF message.status \in {"failed", "busy", "no-answer"}
  THEN failedErrorMessage(message.status, message.endedReason)
  ELSE <<>>

\* a step's outcome: the table and the frame left suspended, if any
outcome(d, fs) == [db |-> d, frames |-> fs]

\* handleStatusUpdate up to its first await
beginStatusUpdate(d, message, batch, t) ==
  IF message.type # "status-update" \/ message.callId = "" \/ message.status = ""
  THEN outcome(d, <<>>)
  ELSE LET found == getByVapiCallId(d, message.callId)
           call == IF found = {} THEN <<>> ELSE <<d[CHOOSE id \in found : TRUE]>>
       IN outcome(d, <<frame("webhook", message, "found", call, <<>>, <<>>, <<>>, d, batch, "getByVapiCallId")>>)

\* handleStatusUpdate from one await to the next
stepStatusUpdate(d, f, t) ==
  LET message == f.m
      terminal == message.status \in {"ended", "failed", "busy", "no-answer"}
      at(pc, call, c, summary, awaiting) ==
        <<frame("webhook", message, pc, call, c, summary, <<>>, f.seen, f.batch, awaiting)>>
  IN IF f.pc = "found"
     THEN IF f.call = <<>> THEN outcome(d, <<>>)
          ELSE IF message.status = "ended" /\ message.artifact # <<>>
          THEN LET call == [f.call[1] EXCEPT !.transcript = extractTranscriptFromMessages(<<>>, message.artifact[1], TRUE)]
               IN outcome(save(d, call, t), at("transcript_saved", <<call>>, <<>>, <<>>, "save"))
          ELSE IF message.status \in {"queued", "ringing", "in-progress"} \/ terminal
          THEN outcome(d, at("us_save", f.call, get(d, f.call[1].id), <<>>, "get"))
          ELSE outcome(d, <<>>)
     ELSE IF f.pc = "transcript_saved"
     THEN outcome(d, at("us_save", f.call, get(d, f.call[1].id), <<>>, "get"))
     ELSE IF f.pc = "us_save"
     THEN IF f.c = <<>> THEN outcome(d, at("us_returned", f.call, <<>>, <<>>, "updateStatus"))
          ELSE outcome(save(d, statusAssigned(f.c[1], targetStatus(message), targetErrorMessage(message), t), t),
                       at("us_saved", f.call, <<>>, <<>>, "save"))
     ELSE IF f.pc = "us_saved"
     THEN outcome(d, at("us_returned", f.call, <<>>, <<>>, "updateStatus"))
     ELSE IF f.pc = "us_returned"
     THEN IF terminal
          THEN outcome(d, at("updated_got", f.call, get(d, f.call[1].id), <<>>, "get"))
          ELSE outcome(d, <<>>)
     ELSE IF f.pc = "updated_got"
     THEN IF f.c = <<>> THEN outcome(d, <<>>)
          ELSE outcome(d, at("as_save", f.call, get(d, f.c[1].id),
                             <<generateCallSummary(f.c[1], IF message.status = "ended" THEN message.artifact ELSE <<>>)>>, "get"))
     ELSE IF f.pc = "as_save"
     THEN IF f.c = <<>> THEN outcome(d, at("as_returned", f.call, <<>>, <<>>, "addSummary"))
          ELSE outcome(save(d, [f.c[1] EXCEPT !.summary = f.summary, !.updatedAt = t], t),
                       at("as_saved", f.call, <<>>, <<>>, "save"))
     ELSE IF f.pc = "as_saved"
     THEN outcome(d, at("as_returned", f.call, <<>>, <<>>, "addSummary"))
     ELSE outcome(d, <<>>)

\* handleEndOfCallReport up to its first await
beginEndOfCallReport(d, message, batch, t) ==
  IF message.callId = "" THEN outcome(d, <<>>)
  ELSE LET found == getByVapiCallId(d, message.callId)
           call == IF found = {} THEN <<>> ELSE <<d[CHOOSE id \in found : TRUE]>>
       IN outcome(d, <<frame("report", message, "found", call, <<>>, <<>>, <<>>, d, batch, "getByVapiCallId")>>)

\* handleEndOfCallReport from one await to the next
stepEndOfCallReport(d, f, t) ==
  LET message == f.m
      at(pc, call, c, summary, awaiting) ==
        <<frame("report", message, pc, call, c, summary, <<>>, f.seen, f.batch, awaiting)>>
      fallback(d1, call) ==
        IF call.summary = <<>> /\ Len(call.transcript) > 0
        THEN outcome(d1, at("updated_got", <<call>>, get(d1, call.id), <<>>, "get"))
        ELSE outcome(d1, <<>>)
  IN IF f.pc = "found"
     THEN IF f.call = <<>> THEN outcome(d, <<>>)
          ELSE IF Len(f.call[1].transcript) = 0 /\ message.artifact # <<>>
          THEN LET call == [f.call[1] EXCEPT !.transcript = extractTranscriptFromMessages(f.call[1].transcript, message.artifact[1], TRUE)]
               IN outcome(save(d, call, t), at("transcript_saved", <<call>>, <<>>, <<>>, "save"))
          ELSE fallback(d, f.call[1])
     ELSE IF f.pc = "transcript_saved"
     THEN fallback(d, f.call[1])
     ELSE IF f.pc = "updated_got"
     THEN IF f.c = <<>> THEN outcome(d, <<>>)
          ELSE outcome(d, at("as_save", f.call, get(d, f.c[1].id),
                             <<generateCallSummary(f.c[1], message.artifact)>>, "get"))
     ELSE IF f.pc = "as_save"
     THEN IF f.c = <<>> THEN outcome(d, at("as_returned", f.call, <<>>, <<>>, "addSummary"))
          ELSE outcome(save(d, [f.c[1] EXCEPT !.summary = f.summary, !.updatedAt = t], t),
                       at("as_saved", f.call, <<>>, <<>>, "save"))
     ELSE IF f.pc = "as_saved"
     THEN outcome(d, at("as_returned", f.call, <<>>, <<>>, "addSummary"))
     ELSE outcome(d, <<>>)

\* the rows a query returns, as the array the loop runs through
RECURSIVE rowsOf(_, _)
rowsOf(d, ids) ==
  IF ids = {} THEN <<>>
  ELSE LET id == CHOOSE i \in ids : TRUE
       IN <<d[id]>> \o rowsOf(d, ids \ {id})

\* the sweep's loop entering its body for the first row of queue
enterLoop(d, queue, seen) ==
  IF queue = <<>> THEN outcome(d, <<>>)
  ELSE outcome(d, <<frame("sweep", NoMessage, "us_save", <<>>, get(d, queue[1].id), <<>>, queue, seen, {}, "get")>>)

\* markStaleCallsAsFailed up to its first await
beginSweep(d, timeoutSeconds, t) ==
  enterLoop(d, rowsOf(d, staleCalls(d, timeoutSeconds, t)), d)

\* markStaleCallsAsFailed from one await to the next; Head(f.queue) is the
\* loop variable call
stepSweep(d, f, timeoutSeconds, t) ==
  LET call == Head(f.queue)
      at(pc, c, summary, awaiting) ==
        <<frame("sweep", NoMessage, pc, <<>>, c, summary, f.queue, f.seen, {}, awaiting)>>
  IN IF f.pc = "us_save"
     THEN IF f.c = <<>> THEN outcome(d, at("us_returned", <<>>, <<>>, "updateStatus"))
          ELSE outcome(save(d, statusAssigned(f.c[1], "FAILED", timeoutMessage(timeoutSeconds), t), t),
                       at("us_saved", <<>>, <<>>, "save"))
     ELSE IF f.pc = "us_saved"
     THEN outcome(d, at("us_returned", <<>>, <<>>, "updateStatus"))
     ELSE IF f.pc = "us_returned"
     THEN IF Len(call.transcript) > 0 /\ call.summary = <<>>
          THEN outcome(d, at("as_save", get(d, call.id), <<generateBasicSummary(call)>>, "get"))
          ELSE enterLoop(d, Tail(f.queue), f.seen)
     ELSE IF f.pc = "as_save"
     THEN IF f.c = <<>> THEN outcome(d, at("as_returned", <<>>, <<>>, "addSummary"))
          ELSE outcome(save(d, [f.c[1] EXCEPT !.summary = f.summary, !.updatedAt = t], t),
                       at("as_saved", <<>>, <<>>, "save"))
     ELSE IF f.pc = "as_saved"
     THEN outcome(d, at("as_returned", <<>>, <<>>, "addSummary"))
     ELSE enterLoop(d, Tail(f.queue), f.seen)

\* no continuation is queued as a microtask: every suspended frame waits
\* for the event loop
LoopIdle == \A i \in DOMAIN frames : awaitsIO(frames[i].awaiting)

\* status-updates delivered in the behaviours of LoopSpec
LoopMessages ==
  {webhookMessage("status-update", "in-progress", <<>>, <<>>, "v1"),
   webhookMessage("status-update", "ended", reasonText.customer_ended_call, <<ArtifactA>>, "v1")}

\* a webhook request reaches the server's socket
Arrive(message) ==
  /\ message \notin pending
  /\ pending' = pending \cup {message}
  /\ UNCHANGED <<db, now, starting, ending, sweepDue, probe, frames>>

\* the requests of one read of the socket, in the order they were sent
Batches ==
  {<<message>> : message \in LoopMessages}
  \cup UNION {{<<m1, m2>> : m2 \in LoopMessages \ {m1}} : m1 \in LoopMessages}

Range(s) == {s[i] : i \in DOMAIN s}

RECURSIVE begun(_, _, _, _)
begun(d, todo, batch, t) ==
  IF todo = <<>> THEN <<>>
  ELSE (IF Head(todo).type = "end-of-call-report"
        THEN beginEndOfCallReport(d, Head(todo), batch, t)
        ELSE beginStatusUpdate(d, Head(todo), batch, t)).frames \o begun(d, Tail(todo), batch, t)

\* the frame whose continuation the microtask queue runs next (first in,
\* first out)
nextMicrotask ==
  CHOOSE i \in DOMAIN frames :
    ~awaitsIO(frames[i].awaiting) /\ \A j \in 1..(i - 1) : awaitsIO(frames[j].awaiting)

without(s, i) == SubSeq(s, 1, i - 1) \o SubSeq(s, i + 1, Len(s))

\* one read of the socket: the route handler of every request in the data
\* read (requests pipelined on one connection arrive together) runs up to
\* its first await
Begin(batch) ==
  /\ Range(batch) \subseteq pending
  /\ LoopIdle
  /\ pending' = pending \ Range(batch)
  /\ frames' = frames \o begun(db, batch, Range(batch), now)
  /\ UNCHANGED <<db, now, starting, ending, sweepDue, probe>>

\* the continuation of a suspended frame runs up to its next await: the
\* next microtask, or a callback of the event loop when there is no
\* microtask and the awaited promise settles by I/O
Step(i) ==
  /\ i \in DOMAIN frames
  /\ IF LoopIdle THEN TRUE ELSE i = nextMicrotask
  /\ LET f == frames[i]
         r == IF f.kind = "webhook" THEN stepStatusUpdate(db, f, now)
              ELSE IF f.kind = "report" THEN stepEndOfCallReport(db, f, now)
              ELSE stepSweep(db, f, STALE_TIMEOUT, now)
     IN /\ db' = r.db
        /\ frames' = without(frames, i) \o r.frames
  /\ UNCHANGED <<now, starting, ending, sweepDue, probe, pending>>

\* the setInterval callback up to the first await of markStaleCallsAsFailed
SweepBegin ==
  /\ sweepDue
  /\ LoopIdle
  /\ frames' = frames \o beginSweep(db, STALE_TIMEOUT, now).frames
  /\ sweepDue' = FALSE
  /\ UNCHANGED <<db, now, starting, ending, probe, pending>>

LoopNext ==
  \/ LoopIdle /\ \E id \in CallIds, phone \in Phones : StartCall(id, phone)
  \/ LoopIdle /\ \E id \in CallIds, v \in VapiIds : PlaceOk(id, v)
  \/ \E message \in LoopMessages : Arrive(message)
  \/ \E batch \in Batches : Begin(batch)
  \/ \E i \in DOMAIN frames : Step(i)
  \/ LoopIdle /\ Tick
  \/ SweepBegin

LoopSpec == Init /\ [][LoopNext]_vars

\* an end-of-call-report read from the socket alone or together with a
\* status-update for the same call
ReportNext ==
  LET report == webhookMessage("end-of-call-report", "", <<>>, <<ArtifactA>>, "v1")
      updates == {webhookMessage("status-update", "in-progress", <<>>, <<>>, "v1"),
                  webhookMessage("status-update", "ended", reasonText.customer_ended_call, <<>>, "v1"),
                  webhookMessage("status-update", "ended", reasonText.customer_ended_call, <<ArtifactB>>, "v1")}
  IN \/ LoopIdle /\ \E id \in CallIds, phone \in Phones : StartCall(id, phone)
     \/ LoopIdle /\ \E id \in CallIds, v \in VapiIds : PlaceOk(id, v)
     \/ \E message \in updates \cup {report} : Arrive(message)
     \/ \E batch \in {<<report>>} \cup {<<report, m>> : m \in updates} \cup {<<m, report>> : m \in updates}
                     \cup {<<m>> : m \in updates} : Begin(batch)
     \/ \E i \in DOMAIN frames : Step(i)
     \/ LoopIdle /\ Tick

ReportSpec == Init /\ [][ReportNext]_vars

\* ------------------------------------------------------------------------
\* Two calls side by side: the platform may assign either of two ids to
\* each, also the same id twice; as in LiveSpec, requests arrive while the
\* clock leaves room for a record to go stale afterwards
\* ------------------------------------------------------------------------
PairNext ==
  LET ids == {"c1", "c2"}
      vapiIds == {"v1", "v2"}
      messages ==
        {webhookMessage("status-update", "in-progress", <<>>, <<>>, v) : v \in vapiIds}
        \cup {webhookMessage("status-update", "ended", reasonText.customer_ended_call, <<>>, v) : v \in vapiIds}
  IN \/ RequestsOpen /\ \E id \in ids, phone \in Phones : StartCall(id, phone)
     \/ RequestsOpen /\ \E id \in ids, v \in vapiIds : PlaceOk(id, v)
     \/ \E id \in ids : PlaceFail(id)
     \/ RequestsOpen /\ \E message \in messages : Webhook(message)
     \/ RequestsOpen /\ \E id \in ids : EndCall(id)
     \/ \E id \in ids, resolved \in BOOLEAN : EndReturn(id, resolved)
     \/ Tick
     \/ Sweep

PairSpec == Init /\ [][PairNext]_vars

\* ------------------------------------------------------------------------
\* A status-update whose handler throws: the statement failAt (a save,
\* updateStatus, or the classifier generateCallSummary) raises, the rest of the handler is
\* skipped and the route's catch block answers 500; the table it leaves
\* and the response status
\* ------------------------------------------------------------------------
handleStatusUpdateThrowing(d, message, t, failAt) ==
  IF message.callId = "" \/ message.status = "" THEN [db |-> d, status |-> 200]
  ELSE IF getByVapiCallId(d, message.callId) = {} THEN [db |-> d, status |-> 200]
  ELSE LET call == d[CHOOSE id \in getByVapiCallId(d, message.callId) : TRUE]
           ended == message.status = "ended"
           endReason == orElse(message.endedReason, reasonText.completed)
           finalStatus == IF ended THEN finalStatusOf(endReason)
                          ELSE IF message.status = "no-answer" THEN "NO_ANSWER" ELSE "FAILED"
           errorMessage == IF ended THEN endedErrorMessage(finalStatus, endReason)
                           ELSE failedErrorMessage(message.status, message.endedReason)
           d1 == IF ended /\ message.artifact # <<>>
                 THEN save(d, [call EXCEPT !.transcript = extractTranscriptFromMessages(<<>>, message.artifact[1], TRUE)], t)
                 ELSE d
           d2 == updateStatus(d1, call.id, finalStatus, errorMessage, t)
           thrown == \/ failAt = "save transcript" /\ ended /\ message.artifact # <<>>
                     \/ failAt \in {"updateStatus", "generateCallSummary", "save summary"}
       IN IF message.status \notin {"ended", "failed", "busy", "no-answer"}
          THEN [db |-> handleStatusUpdate(d, message, t), status |-> 200]
          ELSE IF ~thrown THEN [db |-> handleStatusUpdate(d, message, t), status |-> 200]
          ELSE IF failAt = "save transcript" THEN [db |-> d, status |-> 500]
          ELSE IF failAt = "updateStatus" THEN [db |-> d1, status |-> 500]
          ELSE [db |-> d2, status |-> 500]

InitFault ==
  /\ db = <<>> /\ now = 0 /\ starting = <<>> /\ ending = {} /\ sweepDue = FALSE
  /\ pending = {} /\ frames = <<>>
  /\ probe = [fn |-> "handleStatusUpdateThrowing", done |-> FALSE]

\* POST /webhook/vapi with a terminal status-update, one statement of the
\* handler failing; probe keeps the event, the table before and after it
\* and the response status
ThrowingWebhook(message, failAt) ==
  /\ ~probe.done
  /\ LET r == handleStatusUpdateThrowing(db, message, now, failAt)
     IN /\ db' = r.db
        /\ probe' = [fn |-> "handleStatusUpdateThrowing", done |-> TRUE, message |-> message,
                     failAt |-> failAt, before |-> db, after |-> r.db, status |-> r.status]
  /\ UNCHANGED <<now, starting, ending, sweepDue, pending, frames>>

\* the events before the one whose handler throws, and the timer after it
FaultNext ==
  \/ ~probe.done /\ \E id \in CallIds, phone \in Phones : StartCall(id, phone)
  \/ ~probe.done /\ \E id \in CallIds, v \in VapiIds : PlaceOk(id, v)
  \/ ~probe.done /\ \E message \in Messages : Webhook(message)
  \/ \E message \in TerminalMessages, failAt \in {"save transcript", "updateStatus", "generateCallSummary", "save summary"} :
       ThrowingWebhook(message, failAt)
  \/ probe.done /\ Tick
  \/ probe.done /\ Sweep

FaultSpec == InitFault /\ [][FaultNext]_vars

\* C11: errorMessage is set only on records whose status is FAILED,
\* NO_ANSWER or VOICEMAIL; a COMPLETED record has none.
C11_ErrorMessageOnlyWhenUnsuccessful ==
  \A id \in DOMAIN db :
    db[id].errorMessage # <<>> => db[id].status \in {"FAILED", "NO_ANSWER", "VOICEMAIL"}

\* a request to POST /webhook/vapi has been answered
C12_Answered == probe.fn = "postWebhook" /\ probe.done

\* the signature header of the request is the HMAC of its body under key
C12_SignedWith(request, key) ==
  request.signature # <<>> /\ request.signature[1] = [key |-> key, text |-> request.text]

\* C12: with a webhook secret configured, a request whose signature header
\* is missing or is not the HMAC of the body is answered 401 and leaves
\* every record as it was.
C12_SignatureGate ==
  (C12_Answered /\ probe.secret # <<>> /\ ~C12_SignedWith(probe.request, probe.secret))
  => (probe.status = 401 /\ probe.after = probe.before)

\* the request passes authentication: no secret is configured or the
\* signature is the HMAC of the body under the secret
C13_Authenticated == probe.secret = <<>> \/ C12_SignedWith(probe.request, probe.secret)

\* the request carries a JSON body with a message that has a type
C13_ValidEvent ==
  /\ probe.request.json
  /\ Bodies[probe.request.text].message # <<>>
  /\ Bodies[probe.request.text].message[1].type # <<>>

\* C13: the endpoint answers 200, 400 or 401 and nothing else; a request
\* without a raw body is answered 401 when a secret is configured; an
\* authenticated, valid event is answered 200.
C13_OnlyAuthAndValidationErrors ==
  C12_Answered =>
    /\ probe.status \in {200, 400, 401}
    /\ (probe.secret # <<>> /\ ~probe.request.json) => probe.status = 401
    /\ (C13_Authenticated /\ C13_ValidEvent) => probe.status = 200

\* the message of the answered request
C14_Message == Bodies[probe.request.text].message[1]

\* the event names no call or a call that no record carries
C14_Miss ==
  C14_Message.callId = ""
  \/ \A id \in DOMAIN probe.before : probe.before[id].vapiCallId # C14_Message.callId

\* C14: an authenticated, valid status-update or end-of-call-report whose
\* call id is missing or matches no record leaves the table as it was and
\* is answered 200.
C14_CorrelationMissNoOp ==
  (C12_Answered /\ C13_Authenticated /\ C13_ValidEvent
   /\ C14_Message.type[1] \in {"status-update", "end-of-call-report"} /\ C14_Miss)
  => (probe.after = probe.before /\ probe.status = 200)

\* a signed status-update for an unknown call has been answered while a
\* placed call is stored
C14_Witness ==
  /\ C12_Answered /\ probe.secret # <<>> /\ C12_SignedWith(probe.request, probe.secret)
  /\ probe.request.json /\ probe.request.text = "b_miss"
  /\ \E id \in DOMAIN probe.before : probe.before[id].vapiCallId = "v1"
  /\ probe.status = 200 /\ probe.after = probe.before

RECURSIVE C16_SerialResults(_, _, _)
C16_SerialResults(d, batch, t) ==
  IF batch = {} THEN {d}
  ELSE UNION {C16_SerialResults(dispatch(d, message, t), batch \ {message}, t) : message \in batch}

C16_PerCallSerialization ==
  [][\A i \in DOMAIN frames :
       (frames[i].kind = "webhook" /\ frames' = <<>>)
         => db' \in C16_SerialResults(frames[i].seen, frames[i].batch, now)]_vars

\* ------------------------------------------------------------------------
\* C17. Reaper/webhook race: the sweep only fails records that are still
\* transient and stale at the time of its write, and never overwrites what a
\* webhook wrote after the sweep selected the record: whenever the sweep is
\* about to write a row, the stored row is still the one the sweep read, and
\* when the write sets FAILED that row is CALLING or IN_PROGRESS and older
\* than the timeout.
\* ------------------------------------------------------------------------
C17_ReaperWebhookRace ==
  \A i \in DOMAIN frames : LET f == frames[i] IN
    f.kind = "sweep" /\ f.pc \in {"us_save", "as_save"} =>
      /\ f.c # <<>>
      /\ db[f.c[1].id] = f.c[1]
      /\ f.pc = "us_save" =>
           /\ f.c[1].status \in {"CALLING", "IN_PROGRESS"}
           /\ f.c[1].updatedAt < now - STALE_TIMEOUT * 1000

\* the sweep has failed a record while a terminal webhook for that record has
\* arrived and waits to be read
C17_Witness ==
  \E i \in DOMAIN frames : LET f == frames[i] IN
    /\ f.kind = "sweep" /\ f.pc = "us_saved"
    /\ db[Head(f.queue).id].status = "FAILED"
    /\ db[Head(f.queue).id].errorMessage = timeoutMessage(STALE_TIMEOUT)
    /\ \E message \in pending :
         message.status = "ended" /\ message.callId = db[Head(f.queue).id].vapiCallId

\* ------------------------------------------------------------------------
\* C18. completedAt is set at the record's first transition into a terminal
\* status (COMPLETED, FAILED, NO_ANSWER or VOICEMAIL) and never changed
\* afterwards: in every step, a record that is terminal afterwards has
\* completedAt, it is the time of the step when the record had none before,
\* and a completedAt the record had before is kept.
\* ------------------------------------------------------------------------
C18_CompletedAtOnce ==
  [][\A id \in DOMAIN db' :
       /\ db'[id].status \in Terminal => db'[id].completedAt # <<>>
       /\ id \in DOMAIN db =>
            /\ db[id].completedAt # <<>> => db'[id].completedAt = db[id].completedAt
            /\ (db[id].completedAt = <<>> /\ db'[id].completedAt # <<>>)
                 => db'[id].completedAt = <<now>> /\ db'[id].status \in Terminal]_vars

\* ------------------------------------------------------------------------
\* C19. Placement failure: when the placement call of POST /calls/start
\* fails after the record was created, the record is left FAILED, in state
\* END, with completedAt and with an errorMessage that contains the
\* placement error, and the reply is an error that carries the record's id.
\* ------------------------------------------------------------------------
C19_PlacementFailure ==
  [][\A id \in CallIds :
       PlaceFail(id) =>
         /\ db'[id].status = "FAILED"
         /\ db'[id].state = "END"
         /\ db'[id].completedAt # <<>>
         /\ includes(db'[id].errorMessage, e_vapi)
         /\ startFailureReply(starting[id], e_vapi).code = 500
         /\ startFailureReply(starting[id], e_vapi).callId = id]_vars

\* a record whose placement failed, the request answered
C19_Witness ==
  \E id \in DOMAIN db :
    /\ id \notin DOMAIN starting
    /\ db[id].status = "FAILED"
    /\ db[id].state = "END"
    /\ db[id].errorMessage = msg_failed_to_initiate \o e_vapi

\* ------------------------------------------------------------------------
\* C20. After POST /calls/start returns success, the stored record has the
\* status the response reports (CALLING) and the vapiCallId the placement
\* call returned.
\* ------------------------------------------------------------------------
C20_StartedIsCalling ==
  [][\A id \in CallIds, v \in VapiIds :
       (PlaceOk(id, v) /\ db'[id].vapiCallId = v) =>
         db'[id].status = startSuccessReply(starting[id], v).status]_vars

\* ------------------------------------------------------------------------
\* C21. External id integrity: no two records share a vapiCallId, and once
\* a record's vapiCallId is set no step changes or clears it; id and phone
\* of a record never change after its creation.
\* ------------------------------------------------------------------------
C21_ExternalIdIntegrity ==
  [][/\ \A a \in DOMAIN db', b \in DOMAIN db' :
          (a # b /\ db'[a].vapiCallId # "") => db'[a].vapiCallId # db'[b].vapiCallId
     /\ \A id \in DOMAIN db :
          /\ id \in DOMAIN db'
          /\ db'[id].id = id
          /\ db'[id].phone = db[id].phone
          /\ db[id].vapiCallId # "" => db'[id].vapiCallId = db[id].vapiCallId]_vars

\* one record carries v1 and went through events; the other was refused the
\* same id by the UNIQUE column
C21_Witness ==
  \E a \in DOMAIN db, b \in DOMAIN db :
    /\ a # b
    /\ db[a].vapiCallId = "v1" /\ db[a].status = "COMPLETED"
    /\ db[b].vapiCallId = "" /\ db[b].status = "FAILED"
    /\ db[b].errorMessage = msg_failed_to_initiate \o e_unique

\* ------------------------------------------------------------------------
\* C22. Summary retry: a record that is terminal and has no summary
\* eventually has one, given that time passes and the sweep keeps firing.
\* ------------------------------------------------------------------------
C22_SummaryRetry ==
  \A id \in CallIds :
    (id \in DOMAIN db /\ db[id].status \in Terminal /\ db[id].summary = <<>>)
      ~> (id \in DOMAIN db /\ db[id].summary # <<>>)

\* ------------------------------------------------------------------------
\* C23. When the classifier or a persistence step (the save of the final
\* transcript, the save of the summary) fails during a terminal transition,
\* the stored record still has the terminal status of the event.
\* ------------------------------------------------------------------------
C23_StatusRecordedDespiteFailure ==
  (probe.fn = "handleStatusUpdateThrowing" /\ probe.done /\ probe.status = 500) =>
    \A id \in getByVapiCallId(probe.before, probe.message.callId) :
      probe.after[id].status = targetStatus(probe.message)

\* ------------------------------------------------------------------------
\* C24. Every status change of a record follows an edge of the state
\* machine: PENDING to CALLING, CALLING to IN_PROGRESS, or a non-terminal
\* status to a terminal one. IN_PROGRESS is entered only from CALLING and
\* the status never moves backwards.
\* ------------------------------------------------------------------------
C24_AllowedEdges ==
  [][\A id \in DOMAIN db :
       (id \in DOMAIN db' /\ db'[id].status # db[id].status) =>
         \/ db[id].status = "PENDING" /\ db'[id].status = "CALLING"
         \/ db[id].status = "CALLING" /\ db'[id].status = "IN_PROGRESS"
         \/ db[id].status \notin Terminal /\ db'[id].status \in Terminal]_vars

\* ------------------------------------------------------------------------
\* C25. For every ended / failed / busy / no-answer status-update that
\* carries an end reason, the status stored for the call is the one the
\* ordered rules give for that end reason (success list, then voicemail
\* marker, then no-answer marker, else FAILED), whichever of the four
\* signals carried it.
\* ------------------------------------------------------------------------
C25_EndReasonDecides ==
  \A s \in {"ended", "failed", "busy", "no-answer"} :
    \A r \in {reasonText.customer_ended_call, reasonText.voicemail_reached,
              reasonText.no_answer_voicemail, reasonText.no_answer, r_pipeline_error} :
      LET message == webhookMessage("status-update", s, r, <<>>, "v1")
      IN \A id \in getByVapiCallId(db, message.callId) :
           dispatch(db, message, now)[id].status = finalStatusOf(r)

\* ------------------------------------------------------------------------
\* C26. startedAt is set by the step that first makes the record
\* IN_PROGRESS, to the time of that step, and by no other step; once set
\* it is never changed or cleared.
\* ------------------------------------------------------------------------
C26_StartedAtOnce ==
  [][\A id \in DOMAIN db :
       /\ db[id].startedAt # <<>> => db'[id].startedAt = db[id].startedAt
       /\ db[id].startedAt = <<>> =>
            db'[id].startedAt = IF db'[id].status = "IN_PROGRESS" /\ db[id].status # "IN_PROGRESS"
                                THEN <<now>> ELSE <<>>]_vars

\* ------------------------------------------------------------------------
\* C27. A sweep changes only records that are CALLING or IN_PROGRESS with
\* updatedAt older than the timeout: every other record (PENDING, terminal,
\* or updated within the timeout) is left as it is, and the number the
\* sweep returns is the number of records it has made FAILED.
\* ------------------------------------------------------------------------
C27_SweepFrame ==
  [][Sweep =>
       /\ \A id \in DOMAIN db :
            ~(db[id].status \in {"CALLING", "IN_PROGRESS"} /\ db[id].updatedAt < now - STALE_TIMEOUT * 1000) =>
              (id \in DOMAIN db' /\ db'[id] = db[id])
       /\ DOMAIN db' = DOMAIN db
       /\ markedCount(db, STALE_TIMEOUT, now) =
            Cardinality({id \in DOMAIN db : db[id].status # "FAILED" /\ db'[id].status = "FAILED"})]_vars

\* a sweep has just failed a stale record and left a stale PENDING record
\* beside it untouched
C27_Witness ==
  /\ ~sweepDue
  /\ \E a \in DOMAIN db, b \in DOMAIN db :
       /\ db[a].status = "FAILED" /\ db[a].updatedAt = now
       /\ db[a].errorMessage = timeoutMessage(STALE_TIMEOUT)
       /\ db[b].status = "PENDING" /\ db[b].updatedAt < now - STALE_TIMEOUT * 1000

\* ------------------------------------------------------------------------
\* C28. Once an 'ended' status-update with artifact messages has replaced
\* the stored transcript, no later event removes or replaces transcript
\* entries: the transcript it left is a prefix of the transcript after any
\* later event.
\* ------------------------------------------------------------------------
C28_OneFinalReplace ==
  \A final \in {m \in Messages : m.type = "status-update" /\ m.status = "ended" /\ m.artifact # <<>>} :
    \A later \in Messages :
      LET replaced == dispatch(db, final, now)
          after == dispatch(replaced, later, now)
      IN \A id \in getByVapiCallId(db, final.callId) :
           /\ Len(replaced[id].transcript) <= Len(after[id].transcript)
           /\ SubSeq(after[id].transcript, 1, Len(replaced[id].transcript)) = replaced[id].transcript

\* ------------------------------------------------------------------------
\* C29. In every reachable state a record that has a summary has a
\* terminal status.
\* ------------------------------------------------------------------------
C29_SummaryImpliesTerminal ==
  \A id \in DOMAIN db : db[id].summary # <<>> => db[id].status \in Terminal

\* ------------------------------------------------------------------------
\* C30. A conversation-update for a known call that is not terminal, with
\* valid fragments that are not yet in the transcript, leaves the stored
\* transcript longer: the new fragments are appended.
\* ------------------------------------------------------------------------
C30_IncrementalAppends ==
  \A message \in {m \in Messages : m.type = "conversation-update" /\ m.artifact # <<>>} :
    \A id \in getByVapiCallId(db, message.callId) :
      (/\ db[id].status \notin Terminal
       /\ Len(extractTranscriptFromMessages(db[id].transcript, message.artifact[1], FALSE)) > Len(db[id].transcript))
        => Len(dispatch(db, message, now)[id].transcript) > Len(db[id].transcript)

\* ------------------------------------------------------------------------
\* C31. Incremental reconcile is idempotent and deduplicating: a batch of
\* fragments applied twice leaves the transcript of applying it once, and
\* the batch adds no fragment whose (role, lower-cased trimmed text, time
\* or 0) key is already present, in the held transcript or earlier in the
\* same batch.
\* ------------------------------------------------------------------------
C31_IncrementalIdempotent ==
  probe.fn = "reconcile" =>
    LET batch == <<probe.A, probe.B>>
        once == extractTranscriptFromMessages(probe.held, batch, FALSE)
        twice == extractTranscriptFromMessages(once, batch, FALSE)
        ids(transcript) == [i \in 1..Len(transcript) |->
                              messageId(transcript[i].role, transcript[i].message, transcript[i].time)]
        held == bagOf(ids(probe.held))
        kept == bagOf(ids(once))
    IN /\ twice = once
       /\ \A k \in DOMAIN kept : kept[k] = IF k \in DOMAIN held THEN held[k] ELSE 1

\* two fragments with one key and different texts have been delivered and
\* one entry was added for them
C31_Witness ==
  /\ probe.fn = "reconcile" /\ probe.doneAB
  /\ probe.A # probe.B
  /\ messageId(probe.A.role, messageText(probe.A), probe.A.time)
       = messageId(probe.B.role, messageText(probe.B), probe.B.time)
  /\ messageText(probe.A) # messageText(probe.B)
  /\ Len(probe.ab) = Len(probe.held) + 1
  /\ Len(extractTranscriptFromMessages(probe.held, <<probe.A, probe.B>>, FALSE)) = Len(probe.held) + 1

\* ------------------------------------------------------------------------
\* C32. The summary written by a terminal status-update that leaves the
\* record NO_ANSWER or VOICEMAIL carries a retry-timing next action (one of
\* the follow-up or retry suggestions), whatever interest level the
\* transcript yields.
\* ------------------------------------------------------------------------
C32_RetryTimingNextAction ==
  \A r \in {reasonText.voicemail_reached, reasonText.no_answer} :
    \A artifact \in {<<>>, <<ArtifactA>>, <<<<payloadMessage("user", kw.no_thanks, <<>>, <<1000>>, <<>>, <<>>)>>>>} :
      LET message == webhookMessage("status-update", "ended", r, artifact, "v1")
          after == dispatch(db, message, now)
      IN \A id \in getByVapiCallId(db, message.callId) :
           (after[id].status \in {"NO_ANSWER", "VOICEMAIL"} /\ after[id].summary # <<>>) =>
             after[id].summary[1].nextAction \in
               {"Follow up in 1 week", "Follow up in 2-4 weeks", "Schedule follow-up call", "Retry call later"}

\* ------------------------------------------------------------------------
\* C33. When the record has both startedAt and completedAt, the duration
\* of the summary a terminal event writes is completedAt minus startedAt in
\* seconds, also when the event carries artifact messages.
\* ------------------------------------------------------------------------
C33_DurationFromTimestamps ==
  \A artifact \in {<<>>, <<ArtifactA>>} :
    LET message == webhookMessage("status-update", "ended", reasonText.customer_ended_call, artifact, "v1")
        after == dispatch(db, message, now)
    IN \A id \in getByVapiCallId(db, message.callId) :
         (after[id].startedAt # <<>> /\ after[id].completedAt # <<>> /\ after[id].summary # <<>>) =>
           after[id].summary[1].duration = (after[id].completedAt[1] - after[id].startedAt[1]) \div 1000

\* ------------------------------------------------------------------------
\* C34. No step of an end-of-call-report handler changes status,
\* conversation state, completedAt or errorMessage of a record; it changes
\* the transcript only of a record whose stored transcript is empty, and
\* the summary only of a record that has none and, afterwards, a transcript.
\* ------------------------------------------------------------------------
C34_ReportFrame ==
  [][\A i \in DOMAIN frames :
       (frames[i].kind = "report" /\ Step(i)) =>
         \A id \in DOMAIN db :
           /\ db'[id].status = db[id].status
           /\ db'[id].state = db[id].state
           /\ db'[id].completedAt = db[id].completedAt
           /\ db'[id].errorMessage = db[id].errorMessage
           /\ db'[id].transcript # db[id].transcript => db[id].transcript = <<>>
           /\ db'[id].summary # db[id].summary =>
                (db[id].summary = <<>> /\ db'[id].transcript # <<>>)]_vars

\* ------------------------------------------------------------------------
\* C35. POST /calls/:id/end leaves status and errorMessage of a record that
\* is terminal as they are, whether the record was terminal when the
\* request came in or became terminal while the request waited for the
\* platform's reply.
\* ------------------------------------------------------------------------
C35_ManualEndSink ==
  [][\A id \in DOMAIN db :
       (db[id].status \in Terminal /\ (EndCall(id) \/ \E resolved \in BOOLEAN : EndReturn(id, resolved))) =>
         /\ db'[id].status = db[id].status
         /\ db'[id].errorMessage = db[id].errorMessage]_vars

\* ------------------------------------------------------------------------
\* C36. In every reachable state a record that has both startedAt and
\* completedAt has startedAt not later than completedAt.
\* ------------------------------------------------------------------------
C36_StartedBeforeCompleted ==
  \A id \in DOMAIN db :
    (db[id].startedAt # <<>> /\ db[id].completedAt # <<>>) =>
      db[id].startedAt[1] <= db[id].completedAt[1]

\* ------------------------------------------------------------------------
\* C37. An 'ended' status-update without endedReason leaves the call
\* COMPLETED and sets no errorMessage.
\* ------------------------------------------------------------------------
C37_DefaultReasonCompletes ==
  \A artifact \in {<<>>, <<ArtifactA>>} :
    LET message == webhookMessage("status-update", "ended", <<>>, artifact, "v1")
        after == dispatch(db, message, now)
    IN \A id \in getByVapiCallId(db, message.callId) :
         /\ after[id].status = "COMPLETED"
         /\ after[id].errorMessage = db[id].errorMessage

\* ------------------------------------------------------------------------
\* C38. The summary a sweep writes for a timed-out record describes the
\* failure: the record is FAILED, the outcome is "Call failed or timed
\* out", the nextAction is "Retry call later" and the keyPoints include
\* "Call timed out or failed".
\* ------------------------------------------------------------------------
C38_SweepSummaryDescribesFailure ==
  [][Sweep =>
       \A id \in DOMAIN db :
         db'[id].summary # db[id].summary =>
           /\ db'[id].status = "FAILED"
           /\ db'[id].summary[1].outcome = "Call failed or timed out"
           /\ db'[id].summary[1].nextAction = "Retry call later"
           /\ \E i \in DOMAIN db'[id].summary[1].keyPoints :
                db'[id].summary[1].keyPoints[i].text = "Call timed out or failed"]_vars

\* ------------------------------------------------------------------------
\* C39. For every transcript the webhook's classifier, the classifier of
\* the manual generate-summary route and the reaper's basic summary assign
\* the same interestLevel.
\* ------------------------------------------------------------------------
C39_OneInterestClassifier ==
  (probe.fn = "analyzeInterestLevel" /\ probe.done) =>
    LET call == [transcript |-> <<[role |-> "user", message |-> probe.text, time |-> <<>>, secondsFromStart |-> <<>>]>>,
                 status |-> "FAILED", startedAt |-> <<>>, completedAt |-> <<>>]
    IN /\ routeAnalyzeInterestLevel(joinMessages(call.transcript)) = probe.level
       /\ generateBasicSummary(call).interestLevel = probe.level

====
